---- MODULE Spec2Model ----
(***************************************************************************)
(* The background processing pipeline of the article service:              *)
(* jobs.Processor.ProcessArticle (internal/jobs/processor.go) run once on  *)
(* one article row, with the capability services it calls                  *)
(* (Gemini, ElevenLabs, storage, Fal video, APNS) answering                *)
(* nondeterministically and every database write able to fail.             *)
(*                                                                         *)
(* One step of the model is one suspension point of the code: a            *)
(* capability call, a database read or a database write.                   *)
(***************************************************************************)
EXTENDS Naturals, Sequences, FiniteSets, TLC

VARIABLES
    article,          \* the persisted row of table articles
    falService,       \* Processor.falService: "nil" | "nokey" | "configured"
    apnsService,      \* Processor.apnsService: "nil" | "notoken" | "configured"
    pc,               \* position of the ProcessArticle invocation
    originalContent,  \* local originalContent
    summary,          \* local summary
    title,            \* local title
    failMsg,          \* errorMessage argument of the pending failed write
    failReason,       \* errorMsg argument of the pending failure notification
    attempt,          \* pollForCompletion's loop counter
    videoURL,         \* local videoURL: the place GenerateVideo took it from
    queries,          \* status queries pollForCompletion has issued
    duration,         \* local duration of the video block (0: not yet set)
    result,           \* fields of the result response fetchVideoURL received
    log,              \* calls and writes issued so far, in order
    articles,         \* table articles of the server: id -> row, or NoRow
    invocations,      \* the server's ProcessArticle goroutines, by slot
    requests,         \* the CreateArticle requests the server handles
    lastExec          \* per id, the statement last applied to its row

\* The state of the server: the table, the goroutines and the requests.
serverVars == <<articles, invocations, requests, lastExec>>

vars == <<article, falService, apnsService, pc, originalContent, summary,
          title, failMsg, failReason, attempt, videoURL, queries, duration,
          result, log, serverVars>>

\* SQL NULL of a nullable column, and the zero value of an unset Go local.
Null == "NULL"

\* A column holds a value: neither NULL nor the empty string.
IsSet(v) == v # Null /\ v # ""

Formats == {"text", "audio", "video"}

Lengths == {"s", "m", "l"}

\* A poll loop of one attempt more.
maxAttempts_OneMore == 60 + 1

\* maxAttempts of pollForCompletion.
maxAttempts == 60

\* The title ProcessArticle substitutes when title generation fails.
UntitledArticle == "Untitled Article"

\* One entry of the log: the operation, its distinguishing argument, and
\* whether it returned without error.
Ev(op, arg, ok) == [op |-> op, arg |-> arg, ok |-> ok]

\* The row CreateArticle inserts: status queued, every artifact column NULL.
NewArticle(format, length) ==
    [status |-> "queued", error_message |-> Null,
     format |-> format, length |-> length,
     original_content |-> Null, title |-> Null, summary |-> Null,
     thumbnail_path |-> Null, audio_file_path |-> Null,
     video_file_path |-> Null, duration_seconds |-> Null]

\* The ids the table hands out, the goroutine slots and the requests of the
\* server.
JobIds == {"id1", "id2"}

ProcIds == {"g1", "g2"}

RequestIds == {"req1", "req2"}

\* No row with that id, no goroutine in that slot, no request.
NoRow == [status |-> "absent"]

\* A row that DELETE has removed: the columns are kept here so that a
\* statement on the row can be written down, and it matches no WHERE id.
Deleted == [NewArticle(Null, Null) EXCEPT !.status = "deleted"]

\* The table has a row with that id.
Exists(row) == row # NoRow /\ row # Deleted

NoInvocation == [pc |-> "none"]

NoRequest == [pc |-> "none"]

\* No statement has been applied to the row yet.
NoExec == [op |-> "none", status |-> Null, msg |-> Null, by |-> Null,
           twice |-> FALSE]

\* The server before any request: an empty table and no goroutine.
ServerIdle ==
    /\ articles = [j \in JobIds |-> NoRow]
    /\ invocations = [p \in ProcIds |-> NoInvocation]
    /\ requests = [r \in RequestIds |-> NoRequest]
    /\ lastExec = [j \in JobIds |-> NoExec]

Init ==
    /\ \E f \in Formats, l \in Lengths : article = NewArticle(f, l)
    /\ falService \in {"nil", "nokey", "configured"}
    /\ apnsService \in {"nil", "notoken", "configured"}
    /\ pc = "start"
    /\ originalContent = Null
    /\ summary = Null
    /\ title = Null
    /\ failMsg = Null
    /\ failReason = Null
    /\ attempt = 0
    /\ videoURL = Null
    /\ queries = 0
    /\ duration = 0
    /\ result = {}
    /\ log = <<>>
    /\ ServerIdle

\* The UPDATE as it would be if a status write reset the results of the row.
StatusRow_ClearsResults(row, status, errorMessage) ==
    [row EXCEPT !.status = status, !.error_message = errorMessage,
                !.thumbnail_path = Null, !.summary = Null]

\* The UPDATE guarded against a row that already has a terminal status.
StatusRow_Guarded(row, status, errorMessage) ==
    IF row.status \in {"ready", "failed"}
    THEN row
    ELSE [row EXCEPT !.status = status, !.error_message = errorMessage]

\* The UPDATE taking a repeated status for a reset of the message.
StatusRow_ResetsOnRepeat(row, status, errorMessage) ==
    IF row.status = status /\ row.error_message = errorMessage
    THEN [row EXCEPT !.error_message = Null]
    ELSE [row EXCEPT !.status = status, !.error_message = errorMessage]

\* The row after UPDATE articles SET status = $1, error_message = $2,
\* updated_at = NOW() (processor.go:233-234); rows carry no timestamp here.
StatusRow(row, status, errorMessage) ==
    [row EXCEPT !.status = status, !.error_message = errorMessage]

\* updateArticleStatus as it would be if the UPDATE left error_message out.
updateArticleStatus_StatusOnly(status, errorMessage, ok) ==
    /\ article' = IF ok THEN [article EXCEPT !.status = status] ELSE article
    /\ log' = Append(log, Ev("updateArticleStatus", status, ok))

\* UPDATE articles SET status, error_message: one statement, applied as a
\* whole when Exec succeeds and not at all when it returns an error.
updateArticleStatus(status, errorMessage, ok) ==
    /\ article' = IF ok THEN StatusRow(article, status, errorMessage)
                  ELSE article
    /\ log' = Append(log, Ev("updateArticleStatus", status, ok))

\* A fatal error whose handler returns without the failed write.
Fail_ReturnsSilently(msg, reason) ==
    /\ pc' = "done"
    /\ failMsg' = msg
    /\ failReason' = reason

\* A fatal error that is only logged: the pipeline goes on to the ready write.
Fail_Continues(msg, reason) ==
    /\ pc' = "ready"
    /\ failMsg' = msg
    /\ failReason' = reason

\* A fatal error: remember the message of the failed write and the reason
\* of the failure notification (Null where the code sends none).
Fail(msg, reason) ==
    /\ pc' = "fail"
    /\ failMsg' = msg
    /\ failReason' = reason

\* The dispatch with the audio block entered whatever the format.
SynthesisStage_AlwaysAudio(format, fal) == "tts"

\* The format dispatch after the thumbnail stage: the audio block, the video
\* block (guarded by format and by falService), else the ready write.
SynthesisStage(format, fal) ==
    IF format = "audio" THEN "tts"
    ELSE IF format = "video" /\ fal # "nil" THEN "genVideo"
    ELSE "ready"

\* The failed paths with their return missing: control falls through to the
\* ready write.
AfterFailed_FallsThrough(reason, apns) == "ready"

\* Control after the write of status failed: the failure notification where
\* the code sends one and a notifier exists, then return.
AfterFailed(reason, apns) ==
    IF reason # Null /\ apns # "nil" THEN "notifyFailed" ELSE "done"

\* The pipeline carried on after a failed write of status processing.
AfterProcessing_IgnoresError(ok) == "load"

\* Control after the write of status processing: its error is logged and
\* ProcessArticle returns (processor.go:37-40).
AfterProcessing(ok) == IF ok THEN "load" ELSE "done"

\* processor.go:36-40
WriteProcessing ==
    /\ pc = "start"
    /\ \E ok \in BOOLEAN :
          /\ updateArticleStatus("processing", "", ok)
          /\ pc' = AfterProcessing(ok)
    /\ UNCHANGED <<falService, apnsService, originalContent, summary, title,
                   failMsg, failReason, attempt, videoURL, queries, duration,
                   result, serverVars>>

\* processor.go:42-51
LoadArticle ==
    /\ pc = "load"
    /\ \/ /\ pc' = "summarize"
          /\ log' = Append(log, Ev("QueryRow", "", TRUE))
          /\ UNCHANGED <<failMsg, failReason>>
       \/ /\ Fail("Failed to get article details: err", Null)
          /\ log' = Append(log, Ev("QueryRow", "", FALSE))
    /\ UNCHANGED <<article, falService, apnsService, originalContent, summary,
                   title, attempt, videoURL, queries, duration,
                   result, serverVars>>

\* The failed write of every fatal path.
WriteFailed ==
    /\ pc = "fail"
    /\ \E ok \in BOOLEAN : updateArticleStatus("failed", failMsg, ok)
    /\ pc' = AfterFailed(failReason, apnsService)
    /\ UNCHANGED <<falService, apnsService, originalContent, summary, title,
                   failMsg, failReason, attempt, videoURL, queries, duration,
                   result, serverVars>>

\* processor.go:64-71
SummarizeArticle ==
    /\ pc = "summarize"
    /\ \/ /\ originalContent' = "content"
          /\ summary' = "summary"
          /\ pc' = "title"
          /\ log' = Append(log, Ev("SummarizeArticle", "", TRUE))
          /\ UNCHANGED <<failMsg, failReason>>
       \/ /\ Fail("Failed to summarize: err", "Failed to summarize")
          /\ log' = Append(log, Ev("SummarizeArticle", "", FALSE))
          /\ UNCHANGED <<originalContent, summary>>
    /\ UNCHANGED <<article, falService, apnsService, title, attempt, videoURL, queries, duration,
                   result, serverVars>>

\* GenerateTitle's caller without the default: the title stays empty.
TitleAfter_NoFallback(ok) == IF ok THEN "Generated Title" ELSE ""

\* The title GenerateTitle's caller ends up with: the generated one, or the
\* fixed default when the call failed.
TitleAfter(ok) == IF ok THEN "Generated Title" ELSE UntitledArticle

\* processor.go:73-81
GenerateTitle ==
    /\ pc = "title"
    /\ \E ok \in BOOLEAN :
          /\ title' = TitleAfter(ok)
          /\ log' = Append(log, Ev("GenerateTitle", "", ok))
    /\ pc' = "save"
    /\ UNCHANGED <<article, falService, apnsService, originalContent, summary,
                   failMsg, failReason, attempt, videoURL, queries, duration,
                   result, serverVars>>

\* The stage after the content write, had the thumbnail stage been left out.
AfterContentSaved_SkipsThumbnail(format, fal) == SynthesisStage(format, fal)

\* Control after the content write was applied: the thumbnail stage of
\* processor.go:94-117 follows for every format, before the format dispatch.
AfterContentSaved(format, fal) == "thumbnail"

\* The content write had it left the title to a later statement.
PersistContent_WithoutTitle(row, content, t, s) ==
    [row EXCEPT !.original_content = content, !.summary = s]

\* UPDATE articles SET original_content, title, summary (processor.go:84-86):
\* one statement for the three columns.
PersistContent(row, content, t, s) ==
    [row EXCEPT !.original_content = content, !.title = t, !.summary = s]

\* processor.go:83-90
SaveContent ==
    /\ pc = "save"
    /\ \/ /\ article' = PersistContent(article, originalContent, title, summary)
          /\ pc' = AfterContentSaved(article.format, falService)
          /\ log' = Append(log, Ev("UPDATE content", title, TRUE))
          /\ UNCHANGED <<failMsg, failReason>>
       \/ /\ Fail("Failed to save summary: err", Null)
          /\ log' = Append(log, Ev("UPDATE content", title, FALSE))
          /\ UNCHANGED article
    /\ UNCHANGED <<falService, apnsService, originalContent, summary, title,
                   attempt, videoURL, queries, duration,
                   result, serverVars>>

\* A thumbnail failure answered by running the thumbnail stage again.
AfterThumbnailFailure_Retries(format, fal) == "thumbnail"

\* A thumbnail failure treated as fatal.
AfterThumbnailFailure_Fatal(format, fal) == "fail"

\* Control after a failed thumbnail generation or thumbnail upload.
AfterThumbnailFailure(format, fal) == SynthesisStage(format, fal)

\* processor.go:94-100
GenerateThumbnail ==
    /\ pc = "thumbnail"
    /\ \/ /\ pc' = "thumbnailUpload"
          /\ log' = Append(log, Ev("GenerateThumbnail", "", TRUE))
       \/ /\ pc' = AfterThumbnailFailure(article.format, falService)
          /\ log' = Append(log, Ev("GenerateThumbnail", "", FALSE))
    /\ UNCHANGED <<article, falService, apnsService, originalContent, summary,
                   title, failMsg, failReason, attempt, videoURL, queries, duration,
                   result, serverVars>>

\* processor.go:102-106
UploadThumbnail ==
    /\ pc = "thumbnailUpload"
    /\ \/ /\ pc' = "thumbnailSave"
          /\ log' = Append(log, Ev("UploadFile", "image/png", TRUE))
       \/ /\ pc' = AfterThumbnailFailure(article.format, falService)
          /\ log' = Append(log, Ev("UploadFile", "image/png", FALSE))
    /\ UNCHANGED <<article, falService, apnsService, originalContent, summary,
                   title, failMsg, failReason, attempt, videoURL, queries, duration,
                   result, serverVars>>

\* The write of thumbnail_path treated like the critical writes.
AfterThumbnailPathWrite_Fatal(ok, format, fal) ==
    IF ok THEN SynthesisStage(format, fal) ELSE "fail"

\* Control after the write of thumbnail_path: its error is logged
\* (processor.go:111-113) and the format dispatch follows either way.
AfterThumbnailPathWrite(ok, format, fal) == SynthesisStage(format, fal)

\* processor.go:108-116
SaveThumbnailPath ==
    /\ pc = "thumbnailSave"
    /\ \/ /\ article' = [article EXCEPT !.thumbnail_path = "thumbnailURL"]
          /\ log' = Append(log, Ev("UPDATE thumbnail_path", "", TRUE))
          /\ pc' = AfterThumbnailPathWrite(TRUE, article.format, falService)
       \/ /\ log' = Append(log, Ev("UPDATE thumbnail_path", "", FALSE))
          /\ pc' = AfterThumbnailPathWrite(FALSE, article.format, falService)
          /\ UNCHANGED article
    /\ UNCHANGED <<falService, apnsService, originalContent, summary, title,
                   failMsg, failReason, attempt, videoURL, queries, duration,
                   result, serverVars>>

\* processor.go:133-139 with elevenlabs.go:39-83: the text-to-speech request.
ConvertTextToSpeech ==
    /\ pc = "tts"
    /\ \/ /\ pc' = "audioUpload"
          /\ log' = Append(log, Ev("ConvertTextToSpeech", "", TRUE))
          /\ UNCHANGED <<failMsg, failReason>>
       \/ /\ Fail("Failed to convert to speech: err",
                  "Failed to convert to speech")
          /\ log' = Append(log, Ev("ConvertTextToSpeech", "", FALSE))
    /\ UNCHANGED <<article, falService, apnsService, originalContent, summary,
                   title, attempt, videoURL, queries, duration,
                   result, serverVars>>

\* elevenlabs.go:85-94: the upload inside ConvertTextToSpeech.
UploadAudio ==
    /\ pc = "audioUpload"
    /\ \/ /\ pc' = "audioSave"
          /\ log' = Append(log, Ev("UploadFile", "audio/mpeg", TRUE))
          /\ UNCHANGED <<failMsg, failReason>>
       \/ /\ Fail("Failed to convert to speech: failed to upload audio to storage",
                  "Failed to convert to speech")
          /\ log' = Append(log, Ev("UploadFile", "audio/mpeg", FALSE))
    /\ UNCHANGED <<article, falService, apnsService, originalContent, summary,
                   title, attempt, videoURL, queries, duration,
                   result, serverVars>>

\* processor.go:141-148
SaveAudioPath ==
    /\ pc = "audioSave"
    /\ \/ /\ article' = [article EXCEPT !.audio_file_path = "audioURL"]
          /\ pc' = "ready"
          /\ log' = Append(log, Ev("UPDATE audio_file_path", "", TRUE))
          /\ UNCHANGED <<failMsg, failReason>>
       \/ /\ Fail("Failed to save audio path: err", Null)
          /\ log' = Append(log, Ev("UPDATE audio_file_path", "", FALSE))
          /\ UNCHANGED article
    /\ UNCHANGED <<falService, apnsService, originalContent, summary, title,
                   attempt, videoURL, queries, duration,
                   result, serverVars>>

\* The duration switch without its default case: the variable keeps Go's
\* zero value for a length outside s, m, l.
VideoDuration_NoDefault(length) ==
    CASE length = "s" -> 10
      [] length = "m" -> 30
      [] length = "l" -> 60
      [] OTHER -> 0

\* The duration switch of the video block.
VideoDuration(length) ==
    CASE length = "s" -> 10
      [] length = "m" -> 30
      [] length = "l" -> 60
      [] OTHER -> 30

\* The video block up to the end of submitRequest: the duration switch
\* (processor.go:157-168), GenerateVideo's API-key check and submitRequest
\* (fal service 49-58, 69-113).
SubmitVideo ==
    /\ pc = "genVideo"
    /\ \/ /\ falService = "nokey"
          /\ Fail("Failed to generate video: FAL_API_KEY not set",
                  "Failed to generate video")
          /\ log' = Append(log, Ev("GenerateVideo", "FAL_API_KEY not set", FALSE))
       \/ /\ falService = "configured"
          /\ pc' = "poll"
          /\ log' = Append(log, Ev("submitRequest", "", TRUE))
          /\ UNCHANGED <<failMsg, failReason>>
       \/ /\ falService = "configured"
          /\ Fail("Failed to generate video: failed to submit request",
                  "Failed to generate video")
          /\ log' = Append(log, Ev("submitRequest", "", FALSE))
    /\ attempt' = 0
    /\ duration' = VideoDuration(article.length)
    /\ UNCHANGED <<article, falService, apnsService, originalContent, summary,
                   title, videoURL, queries, result, serverVars>>

\* The ways one status query can go wrong before a status is parsed: the
\* request fails in transport, the response is not a 200, or its body is not
\* the expected JSON.
QueryErrors == {"transport error", "HTTP 500", "unparseable body"}

\* The error pollForCompletion returns for each of them, as the message of
\* the failed write carries it.
QueryErrorMessage(r) ==
    CASE r = "transport error" ->
            "Failed to generate video: failed to check status"
      [] r = "HTTP 500" ->
            "Failed to generate video: status request failed with status 500"
      [] r = "unparseable body" ->
            "Failed to generate video: failed to parse status response"

\* The loop as it would be if a query error were answered by polling again.
AfterQueryError_PollsAgain == "poll"

\* Control after a query error: pollForCompletion returns the error (fal
\* service 186-210) and the video block takes its failure path.
AfterQueryError == "fail"

\* The COMPLETED responses: with a response_url, with no response_url but an
\* output carrying the video, with neither.
CompletedResponses == {"COMPLETED", "COMPLETED output", "COMPLETED empty"}

\* The COMPLETED case as it would be if the result were fetched whatever the
\* response carries.
AfterCompleted_AlwaysFetches(r) == "fetch"

\* The COMPLETED case (fal service 214-231): the result is fetched when the
\* response has a response_url; without one the URL is taken from the output,
\* and the case ends in an error when there is none.
AfterCompleted(r) ==
    CASE r = "COMPLETED" -> "fetch"
      [] r = "COMPLETED output" -> "download"
      [] r = "COMPLETED empty" -> "fail"

\* What one status query can bring back: a transport, HTTP or parse error,
\* or a parsed status. COMPLETED comes with a response_url, with no
\* response_url but an output carrying the video, or with neither.
PollResponses ==
    QueryErrors \cup
    {"COMPLETED", "COMPLETED output", "COMPLETED empty", "FAILED",
     "PENDING", "PROCESSING", "CANCELLED"}

\* The switch without its PROCESSING case.
ContinueStatuses_PendingOnly == {"PENDING"}

\* The statuses on which the loop continues polling (fal service 235-237).
ContinueStatuses == {"PENDING", "PROCESSING"}

\* One iteration of pollForCompletion's loop (fal service 182-241), and the
\* loop exit at 243 when the iteration that continues was the last. The log
\* takes the response that ends the loop (ok when pollForCompletion goes on
\* to a video URL) and the timeout; the queries that continue the loop are
\* counted.
PollStatus ==
    /\ pc = "poll"
    /\ attempt < maxAttempts
    /\ \E r \in PollResponses :
          /\ queries' = queries + 1
          /\ log' = IF r \in ContinueStatuses
                    THEN IF attempt + 1 < maxAttempts
                         THEN log
                         ELSE Append(log, Ev("pollForCompletion", "timed out", FALSE))
                    ELSE Append(log, Ev("status", r, r \in {"COMPLETED", "COMPLETED output"}))
          /\ CASE r \in QueryErrors ->
                    /\ pc' = AfterQueryError
                    /\ failMsg' = QueryErrorMessage(r)
                    /\ failReason' = "Failed to generate video"
                    /\ UNCHANGED <<attempt, videoURL>>
               [] r \in CompletedResponses ->
                    /\ pc' = AfterCompleted(r)
                    /\ videoURL' = IF r = "COMPLETED output" THEN "output"
                                   ELSE videoURL
                    /\ IF r = "COMPLETED empty"
                       THEN /\ failMsg' = "Failed to generate video: video completed but no URL found in response"
                            /\ failReason' = "Failed to generate video"
                       ELSE UNCHANGED <<failMsg, failReason>>
                    /\ UNCHANGED attempt
               [] r = "FAILED" ->
                    /\ Fail("Failed to generate video: video generation failed: remote error",
                            "Failed to generate video")
                    /\ UNCHANGED <<attempt, videoURL>>
               [] r \in ContinueStatuses ->
                    /\ attempt' = attempt + 1
                    /\ IF attempt + 1 < maxAttempts
                       THEN UNCHANGED <<pc, failMsg, failReason>>
                       ELSE Fail("Failed to generate video: video generation timed out after 60 attempts",
                                 "Failed to generate video")
                    /\ UNCHANGED videoURL
               [] OTHER ->
                    /\ Fail("Failed to generate video: unknown status",
                            "Failed to generate video")
                    /\ UNCHANGED <<attempt, videoURL>>
    /\ UNCHANGED <<article, falService, apnsService, originalContent, summary,
                   title, duration, result, serverVars>>

\* The places of the result response where fetchVideoURL looks for the URL.
ResultFields == {"url", "video.url", "data.video.url", "data.url"}

\* The search with the top-level url looked at first.
ExtractVideoURL_TopLevelFirst(present) ==
    IF "url" \in present THEN "url"
    ELSE IF "video.url" \in present THEN "video.url"
    ELSE IF "data.video.url" \in present THEN "data.video.url"
    ELSE IF "data.url" \in present THEN "data.url"
    ELSE Null

\* The search of fetchVideoURL (fal service 146-172) over a result that
\* carries the fields in present: the field whose value is returned, or Null.
ExtractVideoURL(present) ==
    IF "video.url" \in present THEN "video.url"
    ELSE IF "data.video.url" \in present THEN "data.video.url"
    ELSE IF "data.url" \in present THEN "data.url"
    ELSE IF "url" \in present THEN "url"
    ELSE Null

\* fetchVideoURL, called from the COMPLETED case (fal service 115-173,
\* 216-221): the GET of the result fails, or brings a result with any of the
\* fields, which is searched for the URL.
FetchVideoURL ==
    /\ pc = "fetch"
    /\ \/ /\ Fail("Failed to generate video: failed to fetch video URL",
                  "Failed to generate video")
          /\ log' = Append(log, Ev("fetchVideoURL", "error", FALSE))
          /\ UNCHANGED <<videoURL, result>>
       \/ \E present \in SUBSET ResultFields :
             LET url == ExtractVideoURL(present) IN
             /\ result' = present
             /\ log' = Append(log, Ev("fetchVideoURL", url, url # Null))
             /\ IF url # Null
                THEN /\ videoURL' = url
                     /\ pc' = "download"
                     /\ UNCHANGED <<failMsg, failReason>>
                ELSE /\ Fail("Failed to generate video: video URL not found in result response",
                             "Failed to generate video")
                     /\ UNCHANGED videoURL
    /\ UNCHANGED <<article, falService, apnsService, originalContent, summary,
                   title, attempt, queries, duration, serverVars>>

\* processor.go:181-188
DownloadVideo ==
    /\ pc = "download"
    /\ \/ /\ pc' = "videoUpload"
          /\ log' = Append(log, Ev("DownloadVideo", videoURL, TRUE))
          /\ UNCHANGED <<failMsg, failReason>>
       \/ /\ Fail("Failed to download video: err", "Failed to download video")
          /\ log' = Append(log, Ev("DownloadVideo", videoURL, FALSE))
    /\ UNCHANGED <<article, falService, apnsService, originalContent, summary,
                   title, attempt, videoURL, queries, duration,
                   result, serverVars>>

\* UploadVideoFile leaving the local file where it is.
UploadVideoFile_KeepsFile(ok) == <<Ev("UploadVideoFile", "", ok)>>

\* StorageService.UploadVideoFile: the file DownloadVideo wrote is uploaded
\* to durable storage and, once uploaded, the local file is deleted. The
\* entries it adds to the log.
UploadVideoFile(ok) ==
    IF ok
    THEN <<Ev("UploadVideoFile", "", TRUE), Ev("os.Remove", "videoPath", TRUE)>>
    ELSE <<Ev("UploadVideoFile", "", FALSE)>>

\* processor.go:190-198
UploadVideo ==
    /\ pc = "videoUpload"
    /\ \/ /\ pc' = "videoSave"
          /\ log' = log \o UploadVideoFile(TRUE)
          /\ UNCHANGED <<failMsg, failReason>>
       \/ /\ Fail("Failed to upload video: err", "Failed to upload video")
          /\ log' = log \o UploadVideoFile(FALSE)
    /\ UNCHANGED <<article, falService, apnsService, originalContent, summary,
                   title, attempt, videoURL, queries, duration,
                   result, serverVars>>

\* processor.go:200-207
SaveVideoPath ==
    /\ pc = "videoSave"
    /\ \/ /\ article' = [article EXCEPT !.video_file_path = "videoStorageURL"]
          /\ pc' = "ready"
          /\ log' = Append(log, Ev("UPDATE video_file_path", "", TRUE))
          /\ UNCHANGED <<failMsg, failReason>>
       \/ /\ Fail("Failed to save video path: err", Null)
          /\ log' = Append(log, Ev("UPDATE video_file_path", "", FALSE))
          /\ UNCHANGED article
    /\ UNCHANGED <<falService, apnsService, originalContent, summary, title,
                   attempt, videoURL, queries, duration,
                   result, serverVars>>

\* The success notification sent whatever the ready write returned.
AfterReady_NotifiesAnyway(ok, apns) ==
    IF apns # "nil" THEN "notifyReady" ELSE "done"

\* Control after the write of status ready.
AfterReady(ok, apns) ==
    IF ok /\ apns # "nil" THEN "notifyReady" ELSE "done"

\* processor.go:212-216
WriteReady ==
    /\ pc = "ready"
    /\ \E ok \in BOOLEAN :
          /\ updateArticleStatus("ready", "", ok)
          /\ pc' = AfterReady(ok, apnsService)
    /\ UNCHANGED <<falService, apnsService, originalContent, summary, title,
                   failMsg, failReason, attempt, videoURL, queries, duration,
                   result, serverVars>>

\* sendNotification without the check for an empty token.
sendNotification_PostsWithoutToken(kind, body, token, ok) ==
    <<Ev(kind, body, ok), Ev("POST /3/device", body, ok)>>

\* APNSService.sendNotification: nothing is sent without a token; otherwise
\* one POST, which may fail. The entries it adds to the log.
sendNotification(kind, body, token, ok) ==
    IF token = "notoken"
    THEN <<Ev(kind, body, TRUE)>>
    ELSE <<Ev(kind, body, ok), Ev("POST /3/device", body, ok)>>

\* A delivery error escalated into a failure of the job.
AfterNotification_Escalates(delivered) == IF delivered THEN "done" ELSE "fail"

\* Control after a notification call returned: its error is logged and
\* dropped (processor.go:226-228, 244-246) and ProcessArticle returns.
AfterNotification(delivered) == "done"

\* processor.go:220-229 with SendArticleReadyNotification.
NotifyReady ==
    /\ pc = "notifyReady"
    /\ \E ok \in BOOLEAN :
          /\ log' = log \o sendNotification("SendArticleReadyNotification",
                                            title, apnsService, ok)
          /\ pc' = AfterNotification(ok \/ apnsService = "notoken")
    /\ UNCHANGED <<article, falService, apnsService, originalContent, summary,
                   title, failMsg, failReason, attempt, videoURL, queries, duration,
                   result, serverVars>>

\* sendFailureNotification with SendArticleFailedNotification, whose payload
\* is a fixed text.
NotifyFailed ==
    /\ pc = "notifyFailed"
    /\ \E ok \in BOOLEAN :
          /\ log' = log \o sendNotification("SendArticleFailedNotification",
                             "There was an error processing your article",
                             apnsService, ok)
          /\ pc' = AfterNotification(ok \/ apnsService = "notoken")
    /\ UNCHANGED <<article, falService, apnsService, originalContent, summary,
                   title, failMsg, failReason, attempt, videoURL, queries, duration,
                   result, serverVars>>

Next ==
    \/ WriteProcessing
    \/ LoadArticle
    \/ WriteFailed
    \/ SummarizeArticle
    \/ GenerateTitle
    \/ SaveContent
    \/ GenerateThumbnail
    \/ UploadThumbnail
    \/ SaveThumbnailPath
    \/ ConvertTextToSpeech
    \/ UploadAudio
    \/ SaveAudioPath
    \/ SubmitVideo
    \/ PollStatus
    \/ FetchVideoURL
    \/ DownloadVideo
    \/ UploadVideo
    \/ SaveVideoPath
    \/ WriteReady
    \/ NotifyReady
    \/ NotifyFailed

Spec == Init /\ [][Next]_vars

\* Values of the length column the handler's validation would not let in;
\* ProcessArticle reads length from the row without checking it.
OtherLengths == {"", "xl"}

\* ProcessArticle invoked on a row of any length: the whole of Init, with the
\* length drawn from the validated values and from others.
AnyLengthInit ==
    /\ \E f \in Formats, l \in Lengths \cup OtherLengths :
          article = NewArticle(f, l)
    /\ falService \in {"nil", "nokey", "configured"}
    /\ apnsService \in {"nil", "notoken", "configured"}
    /\ pc = "start"
    /\ originalContent = Null
    /\ summary = Null
    /\ title = Null
    /\ failMsg = Null
    /\ failReason = Null
    /\ attempt = 0
    /\ videoURL = Null
    /\ queries = 0
    /\ duration = 0
    /\ result = {}
    /\ log = <<>>
    /\ ServerIdle

AnyLengthSpec == AnyLengthInit /\ [][Next]_vars

\* The invocation is a goroutine of its own: it is scheduled until it returns.
FairSpec == Spec /\ WF_vars(Next)

(***************************************************************************)
(* The server: CreateArticle requests, the table, and the ProcessArticle   *)
(* goroutines they start. A goroutine takes one step per statement it      *)
(* executes on the table and one per capability call, which touches no row.*)
(***************************************************************************)

\* The variables of the one-invocation model, which the server leaves alone.
processVars == <<article, falService, apnsService, pc, originalContent,
                 summary, title, failMsg, failReason, attempt, videoURL,
                 queries, duration, result, log>>

\* What a request body may carry as format and length.
RequestInputs ==
    {<<"audio", "m">>, <<"video", "l">>, <<"pdf", "s">>, <<"audio", "xl">>}

\* An UPDATE without its WHERE clause.
UpdateRow_AllRows(table, id, row) ==
    [j \in DOMAIN table |-> IF table[j] = NoRow THEN NoRow ELSE row]

\* UPDATE articles SET ... WHERE id = $n: the one row with that id is
\* replaced; no row is affected when there is none.
UpdateRow(table, id, row) ==
    IF Exists(table[id]) THEN [table EXCEPT ![id] = row] ELSE table

\* ProcessArticle(id) as the go statement starts it; alone is the row as
\* this goroutine's own statements make it.
NewInvocation(id, by, row) ==
    [pc |-> "start", job |-> id, by |-> by, format |-> Null, length |-> Null,
     title |-> Null, failMsg |-> Null, failReason |-> Null, alone |-> row]

\* The goroutine slot an invocation for job j takes: goroutines have no
\* names in the program, so the first one of a job gets the slot of the job.
FreeSlot(j) ==
    LET home == IF j = "id1" THEN "g1" ELSE "g2"
    IN  IF invocations[home] = NoInvocation
        THEN home
        ELSE CHOOSE p \in ProcIds : invocations[p] = NoInvocation

\* The id the INSERT returns: the next of the sequence.
NextId == CHOOSE j \in JobIds :
              /\ articles[j] = NoRow
              /\ \A k \in JobIds : articles[k] = NoRow => (k = j \/ k # "id1")

\* The table serialises the inserts; of two pending ones the explored runs
\* take the one of the earlier request first.
InsertsNext(r) ==
    \A q \in RequestIds : q # r /\ requests[q].pc = "insert" => r = "req1"

\* The explored runs: requests are named in the order they arrive, and a
\* run has either a second request or a second invocation of one job.
Arrives(r) ==
    /\ \A q \in RequestIds : q # r /\ requests[q] = NoRequest => r = "req1"
    /\ \A p \in ProcIds :
          invocations[p] # NoInvocation => invocations[p].by # "caller"

\* article.go:60-90: the request is decoded and validated.
CreateArticleValidate(r) ==
    /\ requests[r] = NoRequest
    /\ Arrives(r)
    /\ \E in \in RequestInputs :
          requests' = [requests EXCEPT ![r] =
              IF in[1] \in Formats /\ in[2] \in Lengths
              THEN [pc |-> "insert", format |-> in[1], length |-> in[2],
                    id |-> Null, response |-> Null]
              ELSE [pc |-> "responded", format |-> Null, length |-> Null,
                    id |-> Null, response |-> "400"]]
    /\ UNCHANGED <<articles, invocations, lastExec, processVars>>

\* article.go:92-107: INSERT ... 'queued' RETURNING id.
CreateArticleInsert(r) ==
    /\ requests[r].pc = "insert"
    /\ InsertsNext(r)
    /\ \/ /\ \E j \in JobIds : articles[j] = NoRow
          /\ articles' = [articles EXCEPT ![NextId] =
                             NewArticle(requests[r].format, requests[r].length)]
          /\ requests' = [requests EXCEPT ![r] =
                 [pc |-> "go", format |-> Null, length |-> Null,
                  id |-> NextId, response |-> Null]]
       \/ /\ requests' = [requests EXCEPT ![r] =
                 [pc |-> "responded", format |-> Null, length |-> Null,
                  id |-> Null, response |-> "500"]]
          /\ UNCHANGED articles
    /\ UNCHANGED <<invocations, lastExec, processVars>>

\* The handler as it would be if the go statement were reached again.
AfterGo_StartsAgain == "go"

\* article.go:109-112: the go statement returns at once and the handler goes
\* on to write the response.
AfterGo == "respond"

\* article.go:109-110: go h.jobProcessor.ProcessArticle(article.ID).
CreateArticleGo(r) ==
    /\ requests[r].pc = "go"
    /\ \E p \in ProcIds : invocations[p] = NoInvocation
    /\ invocations' = [invocations EXCEPT ![FreeSlot(requests[r].id)] =
           NewInvocation(requests[r].id, r, articles[requests[r].id])]
    /\ requests' = [requests EXCEPT ![r].pc = AfterGo]
    /\ UNCHANGED <<articles, lastExec, processVars>>

\* article.go:112-114: the 201 response with the inserted article.
CreateArticleRespond(r) ==
    /\ requests[r].pc = "respond"
    /\ requests' = [requests EXCEPT ![r].pc = "responded",
                                    ![r].response = "201"]
    /\ UNCHANGED <<articles, invocations, lastExec, processVars>>

\* ProcessArticle is exported and checks nothing about the id it is given:
\* a caller invokes it again for a job that already has an invocation.
ProcessArticleAgain ==
    /\ \E p \in ProcIds : invocations[p] = NoInvocation
    /\ \E r \in RequestIds : requests[r] = NoRequest
    /\ \E q \in ProcIds :
          /\ invocations[q] # NoInvocation
          /\ invocations' = [invocations EXCEPT
                 ![FreeSlot(invocations[q].job)] =
                 NewInvocation(invocations[q].job, "caller",
                               articles[invocations[q].job])]
    /\ UNCHANGED <<articles, requests, lastExec, processVars>>

\* A goroutine that has returned keeps nothing of its locals.
Settle(inv) ==
    IF inv.pc = "done"
    THEN [inv EXCEPT !.format = Null, !.length = Null, !.title = Null,
                     !.failMsg = Null, !.failReason = Null]
    ELSE inv

\* A statement of goroutine p on the row of its job. When Exec returns no
\* error the row becomes newRow (and the goroutine's own view newAlone);
\* when it returns an error nothing is applied. next is the goroutine after
\* the statement.
Exec(p, ok, op, status, msg, newRow, newAlone, next) ==
    LET j == invocations[p].job IN
    /\ IF ok /\ Exists(articles[j])
       THEN /\ articles' = UpdateRow(articles, j, newRow)
            /\ lastExec' = [lastExec EXCEPT ![j] =
                   [op |-> op, status |-> status, msg |-> msg, by |-> p,
                    twice |-> /\ lastExec[j].op = op
                              /\ lastExec[j].status = status
                              /\ lastExec[j].msg = msg]]
       ELSE UNCHANGED <<articles, lastExec>>
    /\ invocations' = [invocations EXCEPT ![p] =
           Settle([next EXCEPT !.alone = IF ok THEN newAlone ELSE @])]
    /\ UNCHANGED <<requests, processVars>>

\* The goroutine on a fatal error: the failed write is next.
Failing(inv, msg, reason) ==
    [inv EXCEPT !.pc = "fail", !.failMsg = msg, !.failReason = reason]

\* processor.go:36-40
RunWriteProcessing(p) ==
    LET inv == invocations[p] IN
    /\ inv.pc = "start"
    /\ \E ok \in BOOLEAN :
          Exec(p, ok, "updateArticleStatus", "processing", "",
               StatusRow(articles[inv.job], "processing", ""),
               StatusRow(inv.alone, "processing", ""),
               [inv EXCEPT !.pc = AfterProcessing(ok)])

\* processor.go:42-51: the parameters are read from the row.
RunLoadArticle(p) ==
    LET inv == invocations[p] IN
    /\ inv.pc = "load"
    /\ \/ /\ Exists(articles[inv.job])
          /\ invocations' = [invocations EXCEPT ![p] =
                 [inv EXCEPT !.pc = "summarize",
                             !.format = articles[inv.job].format,
                             !.length = articles[inv.job].length]]
       \/ invocations' = [invocations EXCEPT ![p] =
              Failing(inv, "Failed to get article details: err", Null)]
    /\ UNCHANGED <<articles, requests, lastExec, processVars>>

\* The goroutine after a capability call made at stage pc returned ok or an
\* error (processor.go:64-81, 94-106, 133-139, 171-198): a call touches no
\* row.
AfterCapability(inv, ok) ==
    CASE inv.pc = "summarize" ->
            IF ok THEN [inv EXCEPT !.pc = "title"]
            ELSE Failing(inv, "Failed to summarize: err", "Failed to summarize")
      [] inv.pc = "title" ->
            [inv EXCEPT !.pc = "save", !.title = TitleAfter(ok)]
      [] inv.pc = "thumbnail" ->
            [inv EXCEPT !.pc = IF ok THEN "thumbnailUpload"
                               ELSE AfterThumbnailFailure(inv.format, falService)]
      [] inv.pc = "thumbnailUpload" ->
            [inv EXCEPT !.pc = IF ok THEN "thumbnailSave"
                               ELSE AfterThumbnailFailure(inv.format, falService)]
      [] inv.pc = "tts" ->
            IF ok THEN [inv EXCEPT !.pc = "audioSave"]
            ELSE Failing(inv, "Failed to convert to speech: err",
                         "Failed to convert to speech")
      [] inv.pc = "genVideo" ->
            IF ok /\ falService = "configured"
            THEN [inv EXCEPT !.pc = "download"]
            ELSE Failing(inv, "Failed to generate video: err",
                         "Failed to generate video")
      [] inv.pc = "download" ->
            IF ok THEN [inv EXCEPT !.pc = "videoUpload"]
            ELSE Failing(inv, "Failed to download video: err",
                         "Failed to download video")
      [] inv.pc = "videoUpload" ->
            IF ok THEN [inv EXCEPT !.pc = "videoSave"]
            ELSE Failing(inv, "Failed to upload video: err",
                         "Failed to upload video")

RunCapability(p) ==
    /\ invocations[p].pc \in {"summarize", "title", "thumbnail",
                              "thumbnailUpload", "tts", "genVideo",
                              "download", "videoUpload"}
    /\ \E ok \in BOOLEAN :
          invocations' = [invocations EXCEPT ![p] =
                              AfterCapability(invocations[p], ok)]
    /\ UNCHANGED <<articles, requests, lastExec, processVars>>

\* processor.go:83-90
RunSaveContent(p) ==
    LET inv == invocations[p] IN
    /\ inv.pc = "save"
    /\ \E ok \in BOOLEAN :
          Exec(p, ok, "UPDATE content", Null, inv.title,
               PersistContent(articles[inv.job], "content", inv.title, "summary"),
               PersistContent(inv.alone, "content", inv.title, "summary"),
               IF ok
               THEN [inv EXCEPT !.pc = AfterContentSaved(inv.format, falService)]
               ELSE Failing(inv, "Failed to save summary: err", Null))

\* processor.go:108-116
RunSaveThumbnailPath(p) ==
    LET inv == invocations[p] IN
    /\ inv.pc = "thumbnailSave"
    /\ \E ok \in BOOLEAN :
          Exec(p, ok, "UPDATE thumbnail_path", Null, Null,
               [articles[inv.job] EXCEPT !.thumbnail_path = "thumbnailURL"],
               [inv.alone EXCEPT !.thumbnail_path = "thumbnailURL"],
               [inv EXCEPT !.pc = AfterThumbnailPathWrite(ok, inv.format,
                                                          falService)])

\* processor.go:141-148
RunSaveAudioPath(p) ==
    LET inv == invocations[p] IN
    /\ inv.pc = "audioSave"
    /\ \E ok \in BOOLEAN :
          Exec(p, ok, "UPDATE audio_file_path", Null, Null,
               [articles[inv.job] EXCEPT !.audio_file_path = "audioURL"],
               [inv.alone EXCEPT !.audio_file_path = "audioURL"],
               IF ok THEN [inv EXCEPT !.pc = "ready"]
               ELSE Failing(inv, "Failed to save audio path: err", Null))

\* processor.go:200-207
RunSaveVideoPath(p) ==
    LET inv == invocations[p] IN
    /\ inv.pc = "videoSave"
    /\ \E ok \in BOOLEAN :
          Exec(p, ok, "UPDATE video_file_path", Null, Null,
               [articles[inv.job] EXCEPT !.video_file_path = "videoStorageURL"],
               [inv.alone EXCEPT !.video_file_path = "videoStorageURL"],
               IF ok THEN [inv EXCEPT !.pc = "ready"]
               ELSE Failing(inv, "Failed to save video path: err", Null))

\* processor.go:212-216
RunWriteReady(p) ==
    LET inv == invocations[p] IN
    /\ inv.pc = "ready"
    /\ \E ok \in BOOLEAN :
          Exec(p, ok, "updateArticleStatus", "ready", "",
               StatusRow(articles[inv.job], "ready", ""),
               StatusRow(inv.alone, "ready", ""),
               [inv EXCEPT !.pc = AfterReady(ok, apnsService)])

\* The failed write of every fatal path.
RunWriteFailed(p) ==
    LET inv == invocations[p] IN
    /\ inv.pc = "fail"
    /\ \E ok \in BOOLEAN :
          Exec(p, ok, "updateArticleStatus", "failed", inv.failMsg,
               StatusRow(articles[inv.job], "failed", inv.failMsg),
               StatusRow(inv.alone, "failed", inv.failMsg),
               [inv EXCEPT !.pc = AfterFailed(inv.failReason, apnsService)])

\* processor.go:220-229, 239-248: either notification, whose error is dropped.
RunNotify(p) ==
    /\ invocations[p].pc \in {"notifyReady", "notifyFailed"}
    /\ \E ok \in BOOLEAN :
          invocations' = [invocations EXCEPT ![p] =
              Settle([@ EXCEPT !.pc =
                         AfterNotification(ok \/ apnsService = "notoken")])]
    /\ UNCHANGED <<articles, requests, lastExec, processVars>>

ServerInit ==
    /\ article = NewArticle("text", "s")
    /\ falService = "configured"
    /\ apnsService = "configured"
    /\ pc = "done"
    /\ originalContent = Null
    /\ summary = Null
    /\ title = Null
    /\ failMsg = Null
    /\ failReason = Null
    /\ attempt = 0
    /\ videoURL = Null
    /\ queries = 0
    /\ duration = 0
    /\ result = {}
    /\ log = <<>>
    /\ ServerIdle

ServerNext ==
    \/ \E r \in RequestIds : CreateArticleValidate(r)
    \/ \E r \in RequestIds : CreateArticleInsert(r)
    \/ \E r \in RequestIds : CreateArticleGo(r)
    \/ \E r \in RequestIds : CreateArticleRespond(r)
    \/ ProcessArticleAgain
    \/ \E p \in ProcIds : RunWriteProcessing(p)
    \/ \E p \in ProcIds : RunLoadArticle(p)
    \/ \E p \in ProcIds : RunCapability(p)
    \/ \E p \in ProcIds : RunSaveContent(p)
    \/ \E p \in ProcIds : RunSaveThumbnailPath(p)
    \/ \E p \in ProcIds : RunSaveAudioPath(p)
    \/ \E p \in ProcIds : RunSaveVideoPath(p)
    \/ \E p \in ProcIds : RunWriteReady(p)
    \/ \E p \in ProcIds : RunWriteFailed(p)
    \/ \E p \in ProcIds : RunNotify(p)

ServerSpec == ServerInit /\ [][ServerNext]_vars

\* article.go:193-221: DELETE FROM articles WHERE id = $1 AND user_id = $2
\* removes the row and the handler answers 204; when no row matches it
\* answers 404 and nothing changes.
DeleteArticle(j) ==
    /\ Exists(articles[j])
    /\ articles' = [articles EXCEPT ![j] = Deleted]
    /\ UNCHANGED <<invocations, requests, lastExec, processVars>>

\* The requests of the runs with a deletion: one article is created.
DeleteRequests == {"req1"}

\* The server with DeleteArticle: the article one request created is
\* processed by its goroutine and may be deleted at any moment.
DeleteNext ==
    \/ \E r \in DeleteRequests : CreateArticleValidate(r)
    \/ \E r \in DeleteRequests : CreateArticleInsert(r)
    \/ \E r \in DeleteRequests : CreateArticleGo(r)
    \/ \E r \in DeleteRequests : CreateArticleRespond(r)
    \/ \E j \in JobIds : DeleteArticle(j)
    \/ \E p \in ProcIds : RunWriteProcessing(p)
    \/ \E p \in ProcIds : RunLoadArticle(p)
    \/ \E p \in ProcIds : RunCapability(p)
    \/ \E p \in ProcIds : RunSaveContent(p)
    \/ \E p \in ProcIds : RunSaveThumbnailPath(p)
    \/ \E p \in ProcIds : RunSaveAudioPath(p)
    \/ \E p \in ProcIds : RunSaveVideoPath(p)
    \/ \E p \in ProcIds : RunWriteReady(p)
    \/ \E p \in ProcIds : RunWriteFailed(p)
    \/ \E p \in ProcIds : RunNotify(p)

DeleteSpec == ServerInit /\ [][DeleteNext]_vars

(***************************************************************************)
(* Reading the log.                                                        *)
(***************************************************************************)

\* An entry of the log for operation op exists.
Invoked(op) == \E i \in 1..Len(log) : log[i].op = op

\* An entry for op with the given argument and result exists.
Logged(op, arg, ok) == \E i \in 1..Len(log) : log[i] = Ev(op, arg, ok)

\* The entries a step adds to the log.
NewEntries == {i \in 1..Len(log') : i > Len(log)}

\* The i-th entry is a write of the given status.
IsStatusWrite(i, status) ==
    log[i].op = "updateArticleStatus" /\ log[i].arg = status

\* Every status write issued so far was applied.
StatusWritesApplied ==
    \A i \in 1..Len(log) : log[i].op = "updateArticleStatus" => log[i].ok

Terminal == {"ready", "failed"}

\* The operations of the audio synthesis stage and of the video stage.
AudioOps == {"ConvertTextToSpeech"}

VideoOps == {"GenerateVideo", "submitRequest", "status", "pollForCompletion",
             "fetchVideoURL", "DownloadVideo", "UploadVideoFile", "os.Remove"}

\* The i-th entry belongs to the format-specific synthesis stage.
IsSynthesisEntry(i) ==
    \/ log[i].op \in AudioOps \cup VideoOps
    \/ log[i].op = "UploadFile" /\ log[i].arg = "audio/mpeg"

\* C1: every status write moves the persisted status forward along
\* queued -> processing -> (ready | failed): a step that changes the status
\* takes it from queued to processing or from processing to a terminal
\* status, and a write of ready or failed is issued only once processing
\* has been persisted.
C1_StatusMovesForward ==
    [][/\ article'.status # article.status =>
             \/ article.status = "queued" /\ article'.status = "processing"
             \/ article.status = "processing" /\ article'.status \in Terminal
       /\ \A i \in NewEntries :
             log'[i].op = "updateArticleStatus" /\ log'[i].arg \in Terminal
                => article.status = "processing"]_vars

\* C1 witness: the invocation has returned with the job failed by a fatal
\* stage, after the processing and failed writes were both applied.
C1_Witness ==
    /\ pc = "done"
    /\ article.status = "failed"
    /\ Logged("updateArticleStatus", "processing", TRUE)
    /\ Logged("updateArticleStatus", "failed", TRUE)

\* C2 as stated: whatever the capability and write outcomes, the invocation
\* ends with the persisted status ready or failed.
C2_TerminalWhenDone == pc = "done" => article.status \in Terminal

\* C2 amended: the invocation terminates, and it ends with the persisted
\* status ready or failed whenever every status write it issued was applied
\* (a failed status write is logged or ignored and leaves the status where
\* it was).
C2_TerminatesTerminalIfWritesApplied ==
    /\ <>(pc = "done")
    /\ [](pc = "done" /\ StatusWritesApplied => article.status \in Terminal)

\* C2 witness: a video job that timed out in the poll loop has ended failed
\* with every status write applied.
C2_Witness ==
    /\ pc = "done"
    /\ StatusWritesApplied
    /\ article.status = "failed"
    /\ Logged("pollForCompletion", "timed out", FALSE)

\* The critical stages of the job's format have succeeded and their
\* artifact is persisted.
CriticalStagesSucceeded ==
    /\ Logged("SummarizeArticle", "", TRUE)
    /\ IsSet(article.summary)
    /\ article.format = "audio" =>
          /\ Logged("ConvertTextToSpeech", "", TRUE)
          /\ Logged("UploadFile", "audio/mpeg", TRUE)
          /\ IsSet(article.audio_file_path)
    /\ article.format = "video" =>
          /\ videoURL # Null
          /\ Logged("DownloadVideo", videoURL, TRUE)
          /\ Logged("UploadVideoFile", "", TRUE)
          /\ IsSet(article.video_file_path)

\* C3 as stated: in every processor configuration, status ready is persisted
\* only after every critical stage of the job's format has succeeded.
C3_ReadyOnlyAfterCriticalStages ==
    article.status = "ready" => CriticalStagesSucceeded

\* C4: error_message is set (non-empty) exactly when status is failed.
C4_ErrorMessageIffFailed ==
    IsSet(article.error_message) <=> article.status = "failed"

\* C4 witness: the failed write of a failed extraction has been applied.
C4_Witness ==
    /\ Logged("SummarizeArticle", "", FALSE)
    /\ article.status = "failed"
    /\ article.error_message = "Failed to summarize: err"

\* C5 as stated: with a notifier configured, every write of status failed
\* (here: every one that was applied) is followed, before the invocation
\* returns, by the dispatch of a failure notification.
C5_FailedWriteIsNotified ==
    pc = "done" /\ apnsService # "nil" =>
        \A i \in 1..Len(log) :
            IsStatusWrite(i, "failed") /\ log[i].ok =>
                \E j \in (i + 1)..Len(log) :
                    log[j].op = "SendArticleFailedNotification"

\* The entries that may follow the failed write of a fatal stage: the
\* failure notification and its delivery.
NotificationOps == {"SendArticleFailedNotification", "POST /3/device"}

\* C6: once an operation of the format-specific synthesis stage has failed
\* (text-to-speech or its upload; video submit, poll, fetch, download or
\* upload), the next thing ProcessArticle issues is the write of status
\* failed with a non-empty message, and after it nothing but the failure
\* notification: no further capability, no artifact path write, no ready
\* write, no success notification. The artifact path of the format stays
\* unset, and the status is failed once that write is applied.
C6_SynthesisFailureStops ==
    \A i \in 1..Len(log) :
        IsSynthesisEntry(i) /\ ~log[i].ok =>
            /\ pc \in {"fail", "notifyFailed", "done"}
            /\ IsSet(failMsg)
            /\ article.audio_file_path = Null
            /\ article.video_file_path = Null
            /\ article.status # "ready"
            /\ i < Len(log) =>
                  /\ IsStatusWrite(i + 1, "failed")
                  /\ log[i + 1].ok =>
                        /\ article.status = "failed"
                        /\ article.error_message = failMsg
            /\ i = Len(log) => pc = "fail"
            /\ \A j \in (i + 2)..Len(log) : log[j].op \in NotificationOps

\* C6 witness: the upload of the video to storage failed, the failed write
\* was applied and the invocation has returned.
C6_Witness ==
    /\ pc = "done"
    /\ Logged("UploadVideoFile", "", FALSE)
    /\ article.status = "failed"
    /\ article.error_message = "Failed to upload video: err"

\* No extraction artifact and no later artifact is persisted, and no title,
\* thumbnail, storage or synthesis capability was invoked.
NothingAfterExtraction ==
    /\ article.original_content = Null
    /\ article.summary = Null
    /\ article.title = Null
    /\ article.thumbnail_path = Null
    /\ article.audio_file_path = Null
    /\ article.video_file_path = Null
    /\ ~Invoked("GenerateTitle")
    /\ ~Invoked("GenerateThumbnail")
    /\ ~Invoked("UploadFile")
    /\ \A i \in 1..Len(log) : ~IsSynthesisEntry(i)

\* C7 as stated: when the extraction/summarization call has failed, the
\* invocation ends with status failed and a non-empty error_message, every
\* artifact unset and no later capability invoked.
C7_ExtractionFailureEndsFailed ==
    pc = "done" /\ Logged("SummarizeArticle", "", FALSE) =>
        /\ article.status = "failed"
        /\ IsSet(article.error_message)
        /\ NothingAfterExtraction

\* C7 amended: when the extraction/summarization call has failed, every
\* artifact stays unset and no later capability is invoked; the invocation
\* ends with status failed and a non-empty error_message provided the write
\* of status failed is applied (its error is ignored: the status then stays
\* processing with an empty error_message).
C7_ExtractionFailureEndsFailedIfWritten ==
    Logged("SummarizeArticle", "", FALSE) =>
        /\ NothingAfterExtraction
        /\ pc = "done" =>
              IF Logged("updateArticleStatus", "failed", TRUE)
              THEN /\ article.status = "failed"
                   /\ IsSet(article.error_message)
              ELSE /\ article.status = "processing"
                   /\ article.error_message = ""

\* C7 witness: extraction failed, the failed write was applied and the
\* invocation has returned.
C7_Witness ==
    /\ pc = "done"
    /\ Logged("SummarizeArticle", "", FALSE)
    /\ Logged("updateArticleStatus", "failed", TRUE)
    /\ article.status = "failed"

\* The first operation of the stage the format dispatch selects has been
\* issued: text-to-speech, the video submit (or its API-key check), or,
\* where the dispatch selects no synthesis, the ready write.
SynthesisStageEntered ==
    LET stage == SynthesisStage(article.format, falService) IN
    /\ stage = "tts" => Invoked("ConvertTextToSpeech")
    /\ stage = "genVideo" => Invoked("submitRequest") \/ Invoked("GenerateVideo")
    /\ stage = "ready" => \E k \in 1..Len(log) : IsStatusWrite(k, "ready")

\* C8: when title generation has failed, the title ProcessArticle holds and
\* hands to the content write is "Untitled Article"; the operation issued
\* next is that write (not a write of status failed), which persists the
\* fallback title when it is applied; after it the thumbnail generation is
\* called, and a run that gets past the thumbnail stage enters the
\* format-specific stage and can end ready.
C8_TitleFailureFallsBack ==
    \A i \in 1..Len(log) :
        log[i] = Ev("GenerateTitle", "", FALSE) =>
            /\ title = UntitledArticle
            /\ i = Len(log) => pc = "save" /\ article.status = "processing"
            /\ i < Len(log) =>
                  /\ log[i + 1].op = "UPDATE content"
                  /\ log[i + 1].arg = UntitledArticle
                  /\ log[i + 1].ok =>
                        /\ article.title = UntitledArticle
                        /\ i + 1 = Len(log) =>
                              pc = "thumbnail" /\ article.status = "processing"
                        /\ i + 1 < Len(log) => log[i + 2].op = "GenerateThumbnail"
                        /\ pc = "done" => SynthesisStageEntered

\* C8 witness: title generation failed and the audio job has still ended
\* ready, with the fallback title persisted and the audio synthesized.
C8_Witness ==
    /\ pc = "done"
    /\ Logged("GenerateTitle", "", FALSE)
    /\ article.status = "ready"
    /\ article.title = UntitledArticle
    /\ Invoked("GenerateThumbnail")
    /\ IsSet(article.audio_file_path)

\* The i-th entry is a failed thumbnail generation or a failed thumbnail
\* upload.
IsThumbnailFailure(i) ==
    \/ log[i] = Ev("GenerateThumbnail", "", FALSE)
    \/ log[i] = Ev("UploadFile", "image/png", FALSE)

\* C9: when thumbnail generation or the thumbnail upload has failed,
\* thumbnail_path is never written and stays unset, the operation issued
\* next is the first one of the stage the format dispatch selects (never a
\* write of status failed, so the status stays processing until that stage
\* acts), and the job can end ready with thumbnail_path unset.
C9_ThumbnailFailureTolerated ==
    \A i \in 1..Len(log) :
        IsThumbnailFailure(i) =>
            /\ ~Invoked("UPDATE thumbnail_path")
            /\ article.thumbnail_path = Null
            /\ i = Len(log) =>
                  /\ pc = SynthesisStage(article.format, falService)
                  /\ article.status = "processing"
            /\ i < Len(log) =>
                  \/ log[i + 1].op \in {"ConvertTextToSpeech", "submitRequest",
                                        "GenerateVideo"}
                  \/ IsStatusWrite(i + 1, "ready")
            /\ pc = "done" => SynthesisStageEntered

\* C9 witness: the thumbnail was generated but its upload failed, and the
\* video job has still ended ready with thumbnail_path unset.
C9_Witness ==
    /\ pc = "done"
    /\ Logged("UploadFile", "image/png", FALSE)
    /\ article.status = "ready"
    /\ article.thumbnail_path = Null
    /\ IsSet(article.video_file_path)

\* C10: for a job of format text, no operation of the audio stage or of the
\* video stage is ever issued, the invocation is never inside either stage,
\* and audio_file_path and video_file_path stay unset.
C10_TextInvokesNoSynthesis ==
    article.format = "text" =>
        /\ \A i \in 1..Len(log) : ~IsSynthesisEntry(i)
        /\ ~Invoked("UPDATE audio_file_path")
        /\ ~Invoked("UPDATE video_file_path")
        /\ pc \notin {"tts", "audioUpload", "audioSave", "genVideo", "poll",
                      "fetch", "download", "videoUpload", "videoSave"}
        /\ queries = 0
        /\ article.audio_file_path = Null
        /\ article.video_file_path = Null

\* C10 witness: a text job has ended ready after its thumbnail was stored.
C10_Witness ==
    /\ pc = "done"
    /\ article.format = "text"
    /\ article.status = "ready"
    /\ IsSet(article.thumbnail_path)

\* The audio synthesis succeeded: the text-to-speech request and the upload
\* of its audio both returned without error.
AudioSynthesized ==
    /\ Logged("ConvertTextToSpeech", "", TRUE)
    /\ Logged("UploadFile", "audio/mpeg", TRUE)

\* The video synthesis succeeded: GenerateVideo returned a URL, the video
\* was downloaded from it and the file was uploaded to storage.
VideoSynthesized ==
    /\ Logged("submitRequest", "", TRUE)
    /\ IsSet(videoURL)
    /\ Logged("DownloadVideo", videoURL, TRUE)
    /\ Logged("UploadVideoFile", "", TRUE)

\* C11: audio_file_path is set only on a job of format audio whose audio
\* synthesis succeeded, video_file_path is set only on a job of format video
\* whose video synthesis succeeded, and the two are never both set.
C11_ArtifactMatchesFormat ==
    /\ IsSet(article.audio_file_path) =>
          article.format = "audio" /\ AudioSynthesized
    /\ IsSet(article.video_file_path) =>
          article.format = "video" /\ VideoSynthesized
    /\ ~(IsSet(article.audio_file_path) /\ IsSet(article.video_file_path))
    /\ Invoked("UPDATE audio_file_path") =>
          article.format = "audio" /\ AudioSynthesized
    /\ Invoked("UPDATE video_file_path") =>
          article.format = "video" /\ VideoSynthesized

\* C11 witness: a video job has its video_file_path written after the video
\* was generated, downloaded and uploaded, and its audio_file_path is unset.
C11_Witness ==
    /\ article.format = "video"
    /\ IsSet(article.video_file_path)
    /\ VideoSynthesized
    /\ article.audio_file_path = Null

\* The i-th entry belongs to the thumbnail stage.
IsThumbnailEntry(i) ==
    \/ log[i].op \in {"GenerateThumbnail", "UPDATE thumbnail_path"}
    \/ log[i].op = "UploadFile" /\ log[i].arg = "image/png"

\* The thumbnail stage is complete before the i-th entry: generation was
\* called, the upload followed if the generation succeeded, and the write of
\* thumbnail_path followed if the upload succeeded.
ThumbnailStageBefore(i) ==
    \E j \in 1..(i - 1) :
        /\ log[j].op = "GenerateThumbnail"
        /\ log[j].ok =>
              /\ j + 1 < i
              /\ log[j + 1].op = "UploadFile"
              /\ log[j + 1].arg = "image/png"
              /\ log[j + 1].ok =>
                    j + 2 < i /\ log[j + 2].op = "UPDATE thumbnail_path"

\* C12: for every format, every call of the audio or video stage is preceded
\* by the whole thumbnail stage (the generation call, then the upload if the
\* generation succeeded, then the thumbnail_path write if the upload
\* succeeded); the invocation is never at a synthesis call without thumbnail
\* generation having been called, no thumbnail operation comes after a
\* synthesis call, and the write of status ready is preceded by the
\* thumbnail stage as well.
C12_ThumbnailBeforeSynthesis ==
    /\ \A i \in 1..Len(log) :
          /\ IsSynthesisEntry(i) \/ IsStatusWrite(i, "ready") =>
                ThumbnailStageBefore(i)
          /\ IsSynthesisEntry(i) =>
                \A k \in 1..Len(log) : IsThumbnailEntry(k) => k < i
    /\ pc \in {"tts", "audioUpload", "audioSave", "genVideo", "poll", "fetch",
               "download", "videoUpload", "videoSave", "ready"} =>
          ThumbnailStageBefore(Len(log) + 1)

\* C12 witness: a video job failed in its synthesis stage after the
\* thumbnail had been generated, uploaded and stored.
C12_Witness ==
    /\ article.format = "video"
    /\ article.status = "failed"
    /\ IsSet(article.thumbnail_path)
    /\ Logged("submitRequest", "", FALSE)
    /\ log[Len(log) - 2].op = "UPDATE thumbnail_path"

\* A delivery attempt has failed.
DeliveryFailed ==
    \E i \in 1..Len(log) : log[i].op = "POST /3/device" /\ ~log[i].ok

\* C13: a step in which the delivery of a notification (of either kind)
\* fails leaves every field of the job record as it was before the dispatch
\* and ends the invocation without the error being acted upon; nothing is
\* done after a failed delivery, so the record stays as it was.
C13_DeliveryErrorChangesNothing ==
    [][/\ (\E i \in NewEntries :
              log'[i].op = "POST /3/device" /\ ~log'[i].ok) =>
             /\ article' = article
             /\ failMsg' = failMsg
             /\ pc' = "done"
       /\ ~DeliveryFailed]_vars

\* C13 witness: the delivery of the success notification failed and the job
\* is still ready with its audio stored and no error message.
C13_Witness ==
    /\ pc = "done"
    /\ Logged("POST /3/device", title, FALSE)
    /\ Logged("SendArticleReadyNotification", title, FALSE)
    /\ article.status = "ready"
    /\ ~IsSet(article.error_message)
    /\ IsSet(article.audio_file_path)

\* The calls of the notifier: the dispatches of a notification.
ReadyDispatches ==
    {i \in 1..Len(log) : log[i].op = "SendArticleReadyNotification"}

FailedDispatches ==
    {i \in 1..Len(log) : log[i].op = "SendArticleFailedNotification"}

\* C14 as stated: at most one notification is dispatched; a success
\* notification is dispatched only after a write of status ready and with
\* the persisted status ready, a failure notification only after a write of
\* status failed and with the persisted status failed; when extraction has
\* failed (and there is a notifier to dispatch to) the invocation ends with
\* exactly one failure notification dispatched.
C14_NotificationMatchesPersistedStatus ==
    /\ Cardinality(ReadyDispatches \cup FailedDispatches) <= 1
    /\ \A i \in ReadyDispatches :
          /\ \E j \in 1..(i - 1) : IsStatusWrite(j, "ready")
          /\ article.status = "ready"
    /\ \A i \in FailedDispatches :
          /\ \E j \in 1..(i - 1) : IsStatusWrite(j, "failed")
          /\ article.status = "failed"
    /\ pc = "done" /\ Logged("SummarizeArticle", "", FALSE)
          /\ apnsService # "nil" =>
             Cardinality(FailedDispatches) = 1 /\ ReadyDispatches = {}

\* C14 amended: at most one notification is dispatched; a success
\* notification directly follows an applied write of status ready, so the
\* persisted status is ready; a failure notification directly follows the
\* write of status failed, whose error is ignored, so the persisted status
\* is failed when that write was applied and processing when it was not;
\* when extraction has failed and a notifier exists the invocation ends with
\* exactly one failure notification dispatched and no success notification.
C14_NotificationFollowsStatusWrite ==
    /\ Cardinality(ReadyDispatches \cup FailedDispatches) <= 1
    /\ \A i \in ReadyDispatches :
          /\ i > 1
          /\ log[i - 1] = Ev("updateArticleStatus", "ready", TRUE)
          /\ article.status = "ready"
    /\ \A i \in FailedDispatches :
          /\ i > 1
          /\ IsStatusWrite(i - 1, "failed")
          /\ article.status = IF log[i - 1].ok THEN "failed" ELSE "processing"
    /\ pc = "done" /\ Logged("SummarizeArticle", "", FALSE)
          /\ apnsService # "nil" =>
             Cardinality(FailedDispatches) = 1 /\ ReadyDispatches = {}

\* C14 witness: extraction failed, the write of status failed was not
\* applied, and the one failure notification was dispatched all the same.
C14_Witness ==
    /\ pc = "done"
    /\ Logged("SummarizeArticle", "", FALSE)
    /\ Logged("updateArticleStatus", "failed", FALSE)
    /\ Cardinality(FailedDispatches) = 1
    /\ article.status = "processing"

\* The i-th entry is a write of the job's status or of one of its artifacts.
IsWriteEntry(i) ==
    log[i].op \in {"updateArticleStatus", "UPDATE content",
                   "UPDATE thumbnail_path", "UPDATE audio_file_path",
                   "UPDATE video_file_path"}

\* The i-th entry is a notifier call or a delivery attempt.
IsNotificationEntry(i) ==
    log[i].op \in {"SendArticleReadyNotification",
                   "SendArticleFailedNotification", "POST /3/device"}

\* C15: with no notifier instance no notifier call is made, and with an
\* empty token the notifier call makes no delivery attempt and returns no
\* error. Whatever the notifier configuration, the notification comes after
\* every status and artifact write of the invocation: the notifier is
\* reached only directly after the terminal status write, no write follows
\* a notification, and without a notifier the invocation ends on that same
\* terminal status write, so the sequence of writes is the one of a run
\* with a notifier configured.
C15_NoTargetIsSilentNoOp ==
    /\ apnsService = "nil" => \A i \in 1..Len(log) : ~IsNotificationEntry(i)
    /\ apnsService = "notoken" =>
          \A i \in 1..Len(log) :
              /\ log[i].op # "POST /3/device"
              /\ IsNotificationEntry(i) => log[i].ok
    /\ \A i \in 1..Len(log) :
          IsNotificationEntry(i) =>
              /\ pc = "done"
              /\ \A k \in 1..Len(log) :
                    /\ IsWriteEntry(k) => k < i
                    /\ k > i => IsNotificationEntry(k)
    /\ pc \in {"notifyReady", "notifyFailed"} =>
          /\ apnsService # "nil"
          /\ log[Len(log)].op = "updateArticleStatus"
          /\ log[Len(log)].arg \in Terminal
    /\ pc = "done" /\ Len(log) > 1 /\ apnsService = "nil" =>
          /\ log[Len(log)].op = "updateArticleStatus"
          /\ log[Len(log)].arg \in Terminal

\* C15 witness: a notifier with an empty token was asked for the success
\* notification of a ready audio job; no delivery was attempted.
C15_Witness ==
    /\ pc = "done"
    /\ apnsService = "notoken"
    /\ article.status = "ready"
    /\ IsSet(article.audio_file_path)
    /\ Logged("SendArticleReadyNotification", title, TRUE)
    /\ ~Invoked("POST /3/device")

\* C16: when the initial write of status processing has failed, that write
\* is the only operation of the invocation: no capability is invoked, no
\* other write is issued, no notification is dispatched, the invocation has
\* returned, and the job record is exactly the record the invocation was
\* handed (status queued, nothing else set).
C16_ProcessingWriteFailureAborts ==
    Logged("updateArticleStatus", "processing", FALSE) =>
        /\ log = <<Ev("updateArticleStatus", "processing", FALSE)>>
        /\ pc = "done"
        /\ article = NewArticle(article.format, article.length)
        /\ queries = 0
        /\ failMsg = Null

\* C16 witness: the processing write of a job with a configured notifier
\* failed, and the invocation has returned with the job still queued.
C16_Witness ==
    /\ pc = "done"
    /\ Logged("updateArticleStatus", "processing", FALSE)
    /\ apnsService = "configured"
    /\ article.status = "queued"

\* The error_message of a job whose poll loop ran out of attempts, and the
\* one of a job the remote service reported FAILED.
TimeoutMessage ==
    "Failed to generate video: video generation timed out after 60 attempts"

RemoteFailedMessage ==
    "Failed to generate video: video generation failed: remote error"

\* The poll loop has ended by running out of attempts.
PollTimedOut == Logged("pollForCompletion", "timed out", FALSE)

\* The poll loop issues at most 60 status queries and is left with the 60th;
\* it ends with the timeout error exactly when all 60 responses were PENDING
\* or PROCESSING, and that error is not the one of a remote FAILED status.
PollLoopBounded ==
    /\ queries <= 60
    /\ pc = "poll" => queries < 60 /\ queries = attempt
    /\ PollTimedOut <=> attempt = 60
    /\ PollTimedOut =>
          /\ queries = 60
          /\ ~Invoked("status")
          /\ failMsg = TimeoutMessage
          /\ failMsg # RemoteFailedMessage
    /\ Logged("status", "FAILED", FALSE) => failMsg = RemoteFailedMessage

\* C17 as stated: the poll loop is bounded by 60 queries with a timeout
\* error of its own, and a video job whose loop timed out ends with status
\* failed and the timeout message.
C17_PollTimeoutEndsFailed ==
    /\ PollLoopBounded
    /\ pc = "done" /\ PollTimedOut =>
          /\ article.status = "failed"
          /\ article.error_message = TimeoutMessage

\* C17 amended: the poll loop is bounded by 60 queries with a timeout error
\* of its own; after a timeout the write of status failed with the timeout
\* message is the next operation, and the video job ends with status failed
\* carrying that message when the write is applied, with status processing
\* and no message when it is not.
C17_PollTimeoutEndsFailedIfWritten ==
    /\ PollLoopBounded
    /\ \A i \in 1..Len(log) :
          log[i] = Ev("pollForCompletion", "timed out", FALSE) =>
              /\ i = Len(log) => pc = "fail"
              /\ i < Len(log) =>
                    /\ IsStatusWrite(i + 1, "failed")
                    /\ IF log[i + 1].ok
                       THEN /\ article.status = "failed"
                            /\ article.error_message = TimeoutMessage
                       ELSE /\ article.status = "processing"
                            /\ article.error_message = ""

\* C17 witness: all 60 queries of a video job were answered PENDING or
\* PROCESSING and the job has ended failed with the timeout message.
C17_Witness ==
    /\ pc = "done"
    /\ article.format = "video"
    /\ queries = 60
    /\ PollTimedOut
    /\ article.status = "failed"
    /\ article.error_message = TimeoutMessage

\* A step is a status query of the poll loop.
IsStatusQuery == queries' = queries + 1

\* The status query of this step was answered with status r, which ended
\* the loop.
LoopEndedBy(r) ==
    \E i \in NewEntries : log'[i].op = "status" /\ log'[i].arg = r

\* What C18 says of every response but COMPLETED: a PENDING or PROCESSING
\* response never ends the loop while attempts remain (the step changes
\* nothing but the attempt count, and the next query follows); FAILED ends it
\* with the remote error message; a status outside the known ones ends it
\* with the 'unknown status' error; and after a response that ended the loop
\* no status query is issued.
PollSwitch ==
    /\ IsStatusQuery /\ log' = log =>
          /\ pc' = "poll"
          /\ attempt' = attempt + 1 /\ attempt' < 60
          /\ videoURL' = videoURL /\ failMsg' = failMsg
    /\ IsStatusQuery /\ log' # log /\ ~(\E r \in PollResponses : LoopEndedBy(r)) =>
          /\ attempt' = 60
          /\ pc' = "fail" /\ failMsg' = TimeoutMessage
    /\ ~LoopEndedBy("PENDING") /\ ~LoopEndedBy("PROCESSING")
    /\ LoopEndedBy("FAILED") =>
          pc' = "fail" /\ failMsg' = RemoteFailedMessage
    /\ LoopEndedBy("CANCELLED") =>
          pc' = "fail" /\ failMsg' = "Failed to generate video: unknown status"
    /\ (\E r \in PollResponses : LoopEndedBy(r)) => pc' # "poll"
    /\ Invoked("status") => ~IsStatusQuery /\ pc # "poll"

\* C18 as stated: the switch above, and every COMPLETED response ends the
\* loop and proceeds to the result fetch.
C18_CompletedProceedsToFetch ==
    [][/\ PollSwitch
       /\ \A r \in {"COMPLETED", "COMPLETED output", "COMPLETED empty"} :
             LoopEndedBy(r) => pc' = "fetch"]_vars

\* C18 amended: the switch above, and a COMPLETED response ends the loop and
\* proceeds to the result fetch when it carries a response_url; without one
\* no fetch is made: the URL is taken from the response's output when it has
\* one, and the loop ends with the 'no URL found' error when it has none.
C18_CompletedFetchesOnlyWithResponseURL ==
    [][/\ PollSwitch
       /\ LoopEndedBy("COMPLETED") => pc' = "fetch" /\ videoURL' = videoURL
       /\ LoopEndedBy("COMPLETED output") =>
             pc' = "download" /\ videoURL' = "output"
       /\ LoopEndedBy("COMPLETED empty") =>
             /\ pc' = "fail"
             /\ failMsg' = "Failed to generate video: video completed but no URL found in response"]_vars

\* C18 witness: after queries answered PENDING or PROCESSING, a COMPLETED
\* response without a response_url ended the loop, and the video URL came
\* from its output with no result fetch.
C18_Witness ==
    /\ queries > 2
    /\ Logged("status", "COMPLETED output", TRUE)
    /\ videoURL = "output"
    /\ ~Invoked("fetchVideoURL")
    /\ pc = "download"

\* The first field of the sequence order that is in present, or Null.
FirstPresent(order, present) ==
    IF \E i \in 1..Len(order) : order[i] \in present
    THEN order[CHOOSE i \in 1..Len(order) :
                  /\ order[i] \in present
                  /\ \A j \in 1..(i - 1) : order[j] \notin present]
    ELSE Null

\* fetchVideoURL received a result and searched it; the value it returned
\* is the one of the field it reports.
ResultSearched ==
    \E i \in 1..Len(log) : log[i].op = "fetchVideoURL" /\ log[i].arg # "error"

\* The search of the received result went by the given precedence order: the
\* URL returned is the one of the first field present, and with no field
\* present the call failed with the 'not found' error, which is fatal.
SearchedInOrder(order) ==
    \A i \in 1..Len(log) :
        log[i].op = "fetchVideoURL" /\ log[i].arg # "error" =>
            /\ log[i].arg = FirstPresent(order, result)
            /\ log[i].ok <=> result # {}
            /\ result # {} => videoURL = FirstPresent(order, result)
            /\ result = {} =>
                  /\ videoURL = Null
                  /\ failMsg = "Failed to generate video: video URL not found in result response"
                  /\ pc \in {"fail", "notifyFailed", "done"}
                  /\ ~Invoked("DownloadVideo")

\* C19 as stated: for every subset of the four fields in the result,
\* fetchVideoURL returns the first one present in the order top-level url,
\* video.url, data.video.url, data.url, and fails fatally when none is.
C19_TopLevelURLFirst ==
    SearchedInOrder(<<"url", "video.url", "data.video.url", "data.url">>)

\* C19 amended: for every subset of the four fields in the result,
\* fetchVideoURL returns the first one present in the order video.url,
\* data.video.url, data.url, top-level url, and fails fatally when none is.
C19_TopLevelURLLast ==
    SearchedInOrder(<<"video.url", "data.video.url", "data.url", "url">>)

\* C19 witness: the result carried both a top-level url and video.url, and
\* fetchVideoURL returned video.url.
C19_Witness ==
    /\ ResultSearched
    /\ result = {"url", "video.url"}
    /\ videoURL = "video.url"
    /\ Logged("fetchVideoURL", "video.url", TRUE)

\* The video synthesizer has been called (GenerateVideo, which checks the
\* API key and then submits the request).
VideoSynthesizerCalled == Invoked("GenerateVideo") \/ Invoked("submitRequest")

\* C20: the duration handed to the video synthesizer is determined by the
\* job's length alone: 10 for s, 30 for m, 60 for l, and 30 for every other
\* length; no duration is computed unless the synthesizer is called.
C20_DurationFromLength ==
    /\ VideoSynthesizerCalled =>
          /\ article.format = "video"
          /\ article.length = "s" => duration = 10
          /\ article.length = "m" => duration = 30
          /\ article.length = "l" => duration = 60
          /\ article.length \notin {"s", "m", "l"} => duration = 30
    /\ ~VideoSynthesizerCalled => duration = 0

\* C20 witness: a video job whose length is none of s, m, l has been
\* submitted to the synthesizer with a duration of 30.
C20_Witness ==
    /\ article.format = "video"
    /\ article.length = "xl"
    /\ Logged("submitRequest", "", TRUE)
    /\ duration = 30

\* C21: a video job whose persisted status is ready has video_file_path set
\* and duration_seconds set to the duration derived from its length.
C21_ReadyVideoHasPathAndDuration ==
    article.format = "video" /\ article.status = "ready" =>
        /\ IsSet(article.video_file_path)
        /\ article.duration_seconds # Null
        /\ article.duration_seconds = VideoDuration(article.length)

\* The writes of the extraction artifacts and of the title issued so far.
ContentWrites == {i \in 1..Len(log) : log[i].op = "UPDATE content"}

\* C22 as stated: original_content and summary are persisted before the
\* title generator is invoked, so that once it has been invoked the record
\* has them set whatever becomes of the title.
C22_SummaryPersistedBeforeTitle ==
    Invoked("GenerateTitle") =>
        IsSet(article.original_content) /\ IsSet(article.summary)

\* C22 amended: original_content, summary and title are persisted by one
\* write, issued directly after the title generator has returned; nothing of
\* the three is persisted before that, the three are set together when the
\* write is applied, and the record never has summary set with title unset.
C22_ContentAndTitleInOneWrite ==
    /\ Cardinality(ContentWrites) <= 1
    /\ \A i \in ContentWrites : i > 1 /\ log[i - 1].op = "GenerateTitle"
    /\ IsSet(article.summary) <=> IsSet(article.title)
    /\ IsSet(article.summary) <=> IsSet(article.original_content)
    /\ IsSet(article.summary) <=> \E i \in ContentWrites : log[i].ok
    /\ pc = "save" =>
          /\ Invoked("GenerateTitle")
          /\ article.summary = Null /\ article.title = Null

\* C22 witness: the one content write has been applied after the title was
\* generated, and the record has content, summary and title together.
C22_Witness ==
    /\ Logged("GenerateTitle", "", TRUE)
    /\ Logged("UPDATE content", "Generated Title", TRUE)
    /\ article.summary = "summary"
    /\ article.title = "Generated Title"
    /\ article.original_content = "content"

\* C26: the payload of a failure notification carries the short reason the
\* processor passed for the failed stage (so that two different reasons give
\* two different payloads), and the payload of the success notification
\* carries the job's title.
C26_PayloadCarriesReasonOrTitle ==
    /\ \A i \in FailedDispatches : log[i].arg = failReason
    /\ \A i \in ReadyDispatches : log[i].arg = article.title

\* The temporary file DownloadVideo created is on the local disk.
TempFileExists ==
    /\ \E i \in 1..Len(log) : log[i].op = "DownloadVideo" /\ log[i].ok
    /\ ~Invoked("os.Remove")

\* C27: once the downloaded video has been uploaded to durable storage the
\* temporary file is deleted: the deletion directly follows the upload and
\* precedes the write of video_file_path, and no temporary file remains when
\* the invocation has ended with the video job ready.
C27_TempFileDeletedAfterUpload ==
    /\ \A i \in 1..Len(log) :
          log[i] = Ev("UploadVideoFile", "", TRUE) =>
              /\ i < Len(log)
              /\ log[i + 1].op = "os.Remove"
              /\ ~TempFileExists
    /\ Invoked("UPDATE video_file_path") => ~TempFileExists
    /\ article.format = "video" /\ article.status = "ready" => ~TempFileExists

\* C27 witness: a video job has ended ready after its video was downloaded
\* to a temporary file, uploaded, and the file deleted.
C27_Witness ==
    /\ pc = "done"
    /\ article.format = "video"
    /\ article.status = "ready"
    /\ \E i \in 1..Len(log) : log[i].op = "DownloadVideo" /\ log[i].ok
    /\ Logged("os.Remove", "videoPath", TRUE)
    /\ IsSet(article.video_file_path)

\* The i-th entry is a failed video submit: GenerateVideo found no API key,
\* or submitRequest returned an error.
IsSubmitFailure(i) ==
    \/ log[i] = Ev("GenerateVideo", "FAL_API_KEY not set", FALSE)
    \/ log[i] = Ev("submitRequest", "", FALSE)

\* After a failed submit no status query and no result fetch is issued, and
\* nothing of the video stage follows.
NothingAfterSubmitFailure ==
    /\ queries = 0
    /\ ~Invoked("status") /\ ~Invoked("pollForCompletion")
    /\ ~Invoked("fetchVideoURL") /\ ~Invoked("DownloadVideo")
    /\ result = {} /\ videoURL = Null
    /\ pc \notin {"poll", "fetch", "download", "videoUpload", "videoSave"}

\* C28 as stated: when the video submit has failed, no status query or
\* result fetch is issued and the job ends with status failed.
C28_SubmitFailureEndsFailed ==
    \A i \in 1..Len(log) :
        IsSubmitFailure(i) =>
            /\ NothingAfterSubmitFailure
            /\ pc = "done" => article.status = "failed"

\* C28 amended: when the video submit has failed, no status query or result
\* fetch is issued and the next operation is the write of status failed; the
\* job ends with status failed when that write is applied and with status
\* processing when it is not.
C28_SubmitFailureEndsFailedIfWritten ==
    \A i \in 1..Len(log) :
        IsSubmitFailure(i) =>
            /\ NothingAfterSubmitFailure
            /\ i = Len(log) => pc = "fail"
            /\ i < Len(log) =>
                  /\ IsStatusWrite(i + 1, "failed")
                  /\ article.status =
                        IF log[i + 1].ok THEN "failed" ELSE "processing"
                  /\ log[i + 1].ok => IsSet(article.error_message)

\* C28 witness: a video job with no API key configured has ended failed
\* without a single status query.
C28_Witness ==
    /\ pc = "done"
    /\ falService = "nokey"
    /\ Logged("GenerateVideo", "FAL_API_KEY not set", FALSE)
    /\ article.status = "failed"
    /\ article.error_message = "Failed to generate video: FAL_API_KEY not set"
    /\ queries = 0

\* The number of entries of the log for operation op with argument among args.
Calls(op, args) ==
    Cardinality({i \in 1..Len(log) : log[i].op = op /\ log[i].arg \in args})

\* Every argument an entry of the log carries.
AnyArg == {log[i].arg : i \in 1..Len(log)}

\* C29: within one invocation each capability is invoked at most once:
\* summarize, title generation, thumbnail generation, thumbnail upload, audio
\* synthesis (the speech request and the upload of its audio), video submit,
\* result fetch, video download and video upload; only the status query is
\* issued more than once, and it is issued only after the one submit.
C29_NoStageRetried ==
    /\ Calls("SummarizeArticle", AnyArg) <= 1
    /\ Calls("GenerateTitle", AnyArg) <= 1
    /\ Calls("GenerateThumbnail", AnyArg) <= 1
    /\ Calls("UploadFile", {"image/png"}) <= 1
    /\ Calls("ConvertTextToSpeech", AnyArg) <= 1
    /\ Calls("UploadFile", {"audio/mpeg"}) <= 1
    /\ Calls("GenerateVideo", AnyArg) + Calls("submitRequest", AnyArg) <= 1
    /\ Calls("fetchVideoURL", AnyArg) <= 1
    /\ Calls("DownloadVideo", AnyArg) <= 1
    /\ Calls("UploadVideoFile", AnyArg) <= 1
    /\ Calls("status", AnyArg) + Calls("pollForCompletion", AnyArg) <= 1
    /\ queries > 0 => Logged("submitRequest", "", TRUE)

\* C29 witness: a video job has ended ready after several status queries,
\* with every other capability invoked once.
C29_Witness ==
    /\ pc = "done"
    /\ article.status = "ready"
    /\ queries > 1
    /\ Calls("SummarizeArticle", AnyArg) = 1
    /\ Calls("GenerateTitle", AnyArg) = 1
    /\ Calls("GenerateThumbnail", AnyArg) = 1
    /\ Calls("submitRequest", AnyArg) = 1
    /\ Calls("fetchVideoURL", AnyArg) = 1
    /\ Calls("DownloadVideo", AnyArg) = 1
    /\ Calls("UploadVideoFile", AnyArg) = 1

\* ---------------------------------------------------------------------
\* C23: updateArticleStatus is idempotent: when the same (status, error
\* message) write is applied twice in a row to a job, the second application
\* leaves every field of the row as the first one left it (rows carry no
\* modification timestamp here).
C23_RepeatedStatusWriteChangesNothing ==
    [][\A j \in JobIds :
          (lastExec'[j].op = "updateArticleStatus" /\ lastExec'[j].twice)
              => articles'[j] = articles[j]]_vars

\* The same terminal status has been applied twice in a row to a job, by two
\* invocations.
C23_Witness ==
    \E j \in JobIds :
        /\ lastExec[j].op = "updateArticleStatus"
        /\ lastExec[j].twice
        /\ lastExec[j].status \in {"ready", "failed"}
        /\ articles[j].status = lastExec[j].status

\* ---------------------------------------------------------------------
\* The invocations running or returned for job j.
InvocationsOf(j) ==
    {p \in ProcIds : invocations[p] # NoInvocation /\ invocations[p].job = j}

\* C24: when different jobs are processed by concurrent invocations, under
\* every interleaving each invocation writes only its own job's record: the
\* record of a job with one invocation is at every moment, and so at the end,
\* the record that invocation would have produced alone with the same
\* capability outcomes, and the record of a job with no invocation yet is as
\* inserted.
C24_JobsAreIndependent ==
    \A j \in JobIds :
        /\ (\E p \in ProcIds : InvocationsOf(j) = {p})
               => articles[j] = invocations[CHOOSE p \in ProcIds :
                                                InvocationsOf(j) = {p}].alone
        /\ (articles[j] # NoRow /\ InvocationsOf(j) = {})
               => articles[j] = NewArticle(articles[j].format,
                                           articles[j].length)

\* Two invocations for two jobs have both returned, one job ready and the
\* other failed.
C24_Witness ==
    /\ \A p \in ProcIds : invocations[p].pc = "done"
    /\ invocations["g1"].job # invocations["g2"].job
    /\ articles[invocations["g1"].job].status = "ready"
    /\ articles[invocations["g2"].job].status = "failed"

\* ---------------------------------------------------------------------
\* C25: when ProcessArticle is invoked twice concurrently for one job, nothing
\* guards the record: an applied status write sets the row's status and
\* message whatever the row held, so that a status written as ready or failed
\* by one invocation is overwritten by the other (the witness below).
C25_StatusWriteIsUnguarded ==
    \A j \in JobIds :
        lastExec[j].op = "updateArticleStatus"
            => /\ articles[j].status = lastExec[j].status
               /\ articles[j].error_message = lastExec[j].msg

\* One invocation has returned leaving its job ready or failed, and the last
\* statement applied to the row is a status write of the other invocation that
\* replaced that status with another one.
C25_Witness ==
    \E p, q \in ProcIds :
        /\ p # q
        /\ invocations[p].pc = "done"
        /\ invocations[q] # NoInvocation
        /\ invocations[q].job = invocations[p].job
        /\ invocations[p].alone.status \in {"ready", "failed"}
        /\ lastExec[invocations[p].job].op = "updateArticleStatus"
        /\ lastExec[invocations[p].job].by = q
        /\ articles[invocations[p].job].status # invocations[p].alone.status

\* ---------------------------------------------------------------------
\* The invocations request r has started.
StartedBy(r) ==
    {p \in ProcIds : invocations[p] # NoInvocation /\ invocations[p].by = r}

\* C30: CreateArticle starts ProcessArticle exactly once for each row it
\* inserts, and only after the row exists with status queued; it starts none
\* before the insert, nor when validation (400) or the insert (500) fails.
\* The response does not wait for the invocation (the witness below).
C30_OneInvocationPerInsertedRow ==
    \A r \in RequestIds :
        /\ requests[r].pc \in {"none", "insert", "go"} => StartedBy(r) = {}
        /\ (requests[r].pc = "responded" /\ requests[r].response # "201")
               => StartedBy(r) = {} /\ requests[r].id = Null
        /\ (requests[r].pc = "respond"
               \/ (requests[r].pc = "responded" /\ requests[r].response = "201"))
               => /\ Cardinality(StartedBy(r)) = 1
                  /\ articles[requests[r].id] # NoRow
                  /\ \A p \in StartedBy(r) : invocations[p].job = requests[r].id
        /\ \A p \in StartedBy(r) :
               invocations[p].pc = "start"
                   => invocations[p].alone =
                          NewArticle(invocations[p].alone.format,
                                     invocations[p].alone.length)

\* A request has its 201 response while the invocation it started is still
\* running, and another request was refused.
C30_Witness ==
    \E r, q \in RequestIds :
        /\ requests[r].pc = "responded"
        /\ requests[r].response = "201"
        /\ \E p \in StartedBy(r) : invocations[p].pc \notin {"start", "done"}
        /\ requests[q].pc = "responded"
        /\ requests[q].response \in {"400", "500"}

\* ---------------------------------------------------------------------
\* The columns of the row other than the two a status write sets.
ResultColumns == DOMAIN article \ {"status", "error_message"}

\* An operation of the synthesis stage has failed.
SynthesisFailed == \E i \in 1..Len(log) : IsSynthesisEntry(i) /\ ~log[i].ok

\* C31: a status write never clears earlier results: the step of
\* updateArticleStatus leaves every column but status and error_message as it
\* was, so that a job that failed in the synthesis stage keeps its persisted
\* original_content, summary and title, and its thumbnail_path where the
\* thumbnail stage had written it.
C31_StatusWriteKeepsResults ==
    [][(\E i \in NewEntries : log'[i].op = "updateArticleStatus")
          => /\ \A c \in ResultColumns : article'[c] = article[c]
             /\ SynthesisFailed =>
                   /\ article'.original_content = originalContent
                   /\ article'.summary = summary
                   /\ article'.title = title
                   /\ IsSet(article'.original_content)
                   /\ IsSet(article'.summary)
                   /\ IsSet(article'.title)
                   /\ Logged("UPDATE thumbnail_path", "", TRUE)
                         => article'.thumbnail_path = "thumbnailURL"]_vars

\* Text-to-speech failed after the thumbnail path was written; the job has
\* ended failed with its content, summary, title and thumbnail in place.
C31_Witness ==
    /\ pc = "done"
    /\ Logged("ConvertTextToSpeech", "", FALSE)
    /\ Logged("UPDATE thumbnail_path", "", TRUE)
    /\ article.status = "failed"
    /\ article.thumbnail_path = "thumbnailURL"
    /\ IsSet(article.original_content)
    /\ IsSet(article.summary)
    /\ IsSet(article.title)

\* ---------------------------------------------------------------------
\* The writes whose failure is fatal: content with title and summary, the
\* audio path, the video path.
CriticalWrites ==
    {"UPDATE content", "UPDATE audio_file_path", "UPDATE video_file_path"}

\* The i-th entry is a critical write that returned an error.
IsCriticalWriteFailure(i) == log[i].op \in CriticalWrites /\ ~log[i].ok

\* C32: when a critical persistence write has failed, the next and last
\* thing ProcessArticle issues is the write of status failed with a non-empty
\* message, and it returns: no ready write is issued in the invocation and
\* nothing, no capability of a later stage included, follows.
C32_CriticalWriteFailureStops ==
    \A i \in 1..Len(log) :
        IsCriticalWriteFailure(i) =>
            /\ IsSet(failMsg)
            /\ i = Len(log) => pc = "fail"
            /\ i < Len(log) =>
                  /\ IsStatusWrite(i + 1, "failed")
                  /\ Len(log) = i + 1
                  /\ pc = "done"
                  /\ log[i + 1].ok => /\ article.status = "failed"
                                      /\ article.error_message = failMsg
            /\ \A k \in 1..Len(log) : ~IsStatusWrite(k, "ready")
            /\ article.status # "ready"

\* The write of the audio path failed after a successful text-to-speech, the
\* failed write was applied and the invocation has returned.
C32_Witness ==
    /\ pc = "done"
    /\ Logged("UPDATE audio_file_path", "", FALSE)
    /\ Logged("ConvertTextToSpeech", "", TRUE)
    /\ article.status = "failed"
    /\ article.error_message = "Failed to save audio path: err"

\* ---------------------------------------------------------------------
\* C33: when loading the job parameters fails after the write of status
\* processing, ProcessArticle issues the write of status failed with a
\* non-empty message and returns: the log holds the processing write, the
\* failed query and the failed write, and no capability (summarize, title,
\* thumbnail, storage, synthesis, notification) is invoked.
C33_LoadFailureStops ==
    Logged("QueryRow", "", FALSE) =>
        /\ log[1] = Ev("updateArticleStatus", "processing", TRUE)
        /\ log[2] = Ev("QueryRow", "", FALSE)
        /\ IsSet(failMsg)
        /\ Len(log) = 2 => pc = "fail"
        /\ Len(log) > 2 =>
              /\ Len(log) = 3
              /\ IsStatusWrite(3, "failed")
              /\ pc = "done"
              /\ log[3].ok => /\ article.status = "failed"
                              /\ IsSet(article.error_message)
        /\ \A i \in 1..Len(log) :
              log[i].op \in {"updateArticleStatus", "QueryRow"}
        /\ \A c \in ResultColumns \ {"format", "length"} : article[c] = Null

\* The query of the parameters failed, the failed write was applied and the
\* invocation has returned.
C33_Witness ==
    /\ pc = "done"
    /\ Logged("QueryRow", "", FALSE)
    /\ article.status = "failed"
    /\ article.error_message = "Failed to get article details: err"

\* ---------------------------------------------------------------------
\* C34: the success notification is dispatched only right after the write of
\* status ready was applied, and the title it carries is the title persisted
\* for the job, which is the fallback title when title generation failed;
\* when the ready write returned an error, ProcessArticle returns at once and
\* no notification of either kind is dispatched.
C34_SuccessNotificationAfterReadyWrite ==
    /\ \A i \in 1..Len(log) :
          log[i].op = "SendArticleReadyNotification" =>
              /\ i > 1
              /\ log[i - 1] = Ev("updateArticleStatus", "ready", TRUE)
              /\ article.status = "ready"
              /\ log[i].arg = article.title
              /\ Logged("GenerateTitle", "", FALSE)
                    => log[i].arg = UntitledArticle
    /\ \A i \in 1..Len(log) :
          log[i] = Ev("updateArticleStatus", "ready", FALSE) =>
              /\ i = Len(log)
              /\ pc = "done"
              /\ ReadyDispatches = {}
              /\ FailedDispatches = {}

\* Title generation failed, the ready write was applied and the success
\* notification went out with the fallback title, which is the persisted one.
C34_Witness ==
    /\ pc = "done"
    /\ Logged("GenerateTitle", "", FALSE)
    /\ Logged("SendArticleReadyNotification", UntitledArticle, TRUE)
    /\ Logged("POST /3/device", UntitledArticle, TRUE)
    /\ article.status = "ready"
    /\ article.title = UntitledArticle

\* ---------------------------------------------------------------------
\* The i-th entry is a status query that went wrong.
IsQueryError(i) == log[i].op = "status" /\ log[i].arg \in QueryErrors

\* After a query error nothing of the video stage follows: no status query,
\* no result fetch, no download, no upload, no video path.
NothingAfterQueryError(i) ==
    /\ pc \in {"fail", "notifyFailed", "done"}
    /\ attempt < maxAttempts
    /\ queries = attempt + 1
    /\ videoURL = Null /\ result = {}
    /\ article.video_file_path = Null
    /\ failMsg = QueryErrorMessage(log[i].arg)
    /\ \A j \in (i + 1)..Len(log) :
          log[j].op \in {"updateArticleStatus"} \cup NotificationOps
    /\ \A k \in 1..Len(log) : ~IsStatusWrite(k, "ready")

\* C35 as stated: a transport error, a non-200 response or an unparseable
\* body on a status query ends pollForCompletion at once, with no further
\* status query and the remaining attempts unused, and the video job ends
\* with status failed.
C35_QueryErrorEndsFailed ==
    \A i \in 1..Len(log) :
        IsQueryError(i) =>
            /\ NothingAfterQueryError(i)
            /\ pc = "done" => article.status = "failed"

\* C35 amended: a transport error, a non-200 response or an unparseable body
\* on a status query ends pollForCompletion at once, with no further status
\* query and the remaining attempts unused, and the next operation is the
\* write of status failed with the error as its message; the video job ends
\* with status failed when that write is applied and with status processing
\* when it is not.
C35_QueryErrorEndsFailedIfWritten ==
    \A i \in 1..Len(log) :
        IsQueryError(i) =>
            /\ NothingAfterQueryError(i)
            /\ i = Len(log) => pc = "fail"
            /\ i < Len(log) =>
                  /\ IsStatusWrite(i + 1, "failed")
                  /\ article.status =
                        IF log[i + 1].ok THEN "failed" ELSE "processing"
                  /\ log[i + 1].ok => article.error_message = failMsg

\* The third status query came back with a body that does not parse, after
\* two that asked to wait; the job has ended failed with 57 attempts unused.
C35_Witness ==
    /\ pc = "done"
    /\ Logged("status", "unparseable body", FALSE)
    /\ attempt = 2
    /\ queries = 3
    /\ article.status = "failed"
    /\ article.error_message =
          "Failed to generate video: failed to parse status response"

\* ---------------------------------------------------------------------
\* The result fetch was performed and returned the video URL.
FetchedVideoURL ==
    \E i \in 1..Len(log) :
        /\ log[i].op = "fetchVideoURL" /\ log[i].ok
        /\ log[i].arg = videoURL

\* C36 as stated: a COMPLETED response never yields a video URL without the
\* fetch of the indirection URL having been performed.
C36_CompletedAlwaysFetches ==
    videoURL # Null => FetchedVideoURL

\* C36 amended: on a COMPLETED status that carries an indirection URL the
\* video URL is obtained by fetching it, and only such a response leads to a
\* fetch; a COMPLETED response without an indirection URL yields the video
\* URL from its output with no fetch performed.
C36_CompletedFetchesIndirectionIfCarried ==
    /\ videoURL # Null =>
          \/ /\ Logged("status", "COMPLETED", TRUE)
             /\ FetchedVideoURL
          \/ /\ Logged("status", "COMPLETED output", TRUE)
             /\ videoURL = "output"
             /\ ~Invoked("fetchVideoURL")
    /\ \A i \in 1..Len(log) :
          log[i].op = "fetchVideoURL" =>
              i > 1 /\ log[i - 1] = Ev("status", "COMPLETED", TRUE)
    /\ Logged("status", "COMPLETED", TRUE) =>
          pc = "fetch" \/ Invoked("fetchVideoURL")
    /\ pc \in {"download", "videoUpload", "videoSave"} => videoURL # Null

\* A COMPLETED response with an indirection URL was followed by the fetch, and
\* the video was downloaded from the URL the fetched result carried.
C36_Witness ==
    /\ Logged("status", "COMPLETED", TRUE)
    /\ Logged("fetchVideoURL", "video.url", TRUE)
    /\ Logged("DownloadVideo", "video.url", TRUE)
    /\ videoURL = "video.url"

\* ---------------------------------------------------------------------
\* C38: when the thumbnail was generated and uploaded but the write of
\* thumbnail_path has failed, the failure is tolerated: thumbnail_path stays
\* unset, the operation issued next is the first one of the stage the format
\* dispatch selects and not a write of status failed (the status stays
\* processing until that stage acts), and the job can end ready with
\* thumbnail_path unset.
C38_ThumbnailPathWriteFailureTolerated ==
    \A i \in 1..Len(log) :
        log[i] = Ev("UPDATE thumbnail_path", "", FALSE) =>
            /\ i > 2
            /\ log[i - 2] = Ev("GenerateThumbnail", "", TRUE)
            /\ log[i - 1] = Ev("UploadFile", "image/png", TRUE)
            /\ article.thumbnail_path = Null
            /\ i = Len(log) =>
                  /\ pc = SynthesisStage(article.format, falService)
                  /\ article.status = "processing"
                  /\ failMsg = Null
            /\ i < Len(log) =>
                  \/ log[i + 1].op \in {"ConvertTextToSpeech", "submitRequest",
                                        "GenerateVideo"}
                  \/ IsStatusWrite(i + 1, "ready")
            /\ pc = "done" => SynthesisStageEntered

\* The thumbnail was generated and uploaded, the write of its path failed,
\* and the audio job has still ended ready with thumbnail_path unset.
C38_Witness ==
    /\ pc = "done"
    /\ Logged("UploadFile", "image/png", TRUE)
    /\ Logged("UPDATE thumbnail_path", "", FALSE)
    /\ Logged("ConvertTextToSpeech", "", TRUE)
    /\ article.status = "ready"
    /\ article.thumbnail_path = Null
    /\ IsSet(article.audio_file_path)

\* ---------------------------------------------------------------------
\* C37: with DeleteArticle running concurrently with ProcessArticle for the
\* same job, the invocation goes on to the success notification only if, as
\* its ready write completes, the job's row exists with status ready; and no
\* step of the orchestrator brings a deleted row back.
C37_ReadyReportedOnlyForExistingRow ==
    [][\A p \in ProcIds :
          /\ (/\ invocations[p] # NoInvocation
              /\ invocations[p].pc = "ready"
              /\ invocations'[p].pc = "notifyReady")
                => /\ Exists(articles'[invocations[p].job])
                   /\ articles'[invocations[p].job].status = "ready"
          /\ \A j \in JobIds : articles[j] = Deleted => articles'[j] = Deleted]_vars

====
